---- MODULE Spec2Model ----
(***************************************************************************)
(* A model of the SPC analytics core of pefc (src/pefc/qctools.py):        *)
(* spc_rules, XmrChart, XBarRChart, Spec and ProcessCapability; of the     *)
(* cell references of XLDataLink (src/pefc/xltab.py); and of the AlphaNum  *)
(* sort key (src/pefc/sortutils.py); of mround (src/pefc/mlutils.py) and   *)
(* of DictModel (src/pefc/genericmodels.py).                               *)
(*                                                                         *)
(* Numbers.  Observations are integers (measurement units).  Every value   *)
(* the code derives from them with +, -, *, / and the chart constants is a *)
(* rational, held exactly as a pair <<num, den>> in lowest terms with      *)
(* den > 0.  The float values the code cannot order are pairs with den 0:  *)
(* <<0, 0>> is nan, <<1, 0>> is inf and <<-1, 0>> is -inf.                   *)
(*                                                                         *)
(* Indices.  The code indexes from 0, TLA+ sequences from 1: the model     *)
(* keeps the code's 0-based indices as values (ind, ofc2_ind, ...) and     *)
(* adds 1 where it reads a sequence.                                       *)
(***************************************************************************)
EXTENDS Integers, Sequences, FiniteSets, TLC

VARIABLES
    data,      \* spc_rules: the series under test (argument data)
    obs,       \* spc_rules: the labels of the series (argument obs)
    lims,      \* spc_rules: the seven boundaries cl, ucl, ucl_b, ucl_c, lcl, lcl_b, lcl_c
    ofc,       \* spc_rules: the returned 16-tuple, <<>> before the call
    chart,     \* XmrChart, XBarRChart: the attributes of the chart object, NoObject before construction
    built,     \* XmrChart, XBarRChart: what __init__ was given and left (history variable)
    shown,     \* XmrChart: what the last plot call evaluated and drew, NoOutput before one
    spec,      \* Spec: the object Spec.__init__ produced, NoObject before construction
    capa,      \* ProcessCapability: the attributes of the object, NoObject before construction
    cell,      \* XLDataLink: a cell reference or coordinates and what the conversions made of them
    names,     \* AlphaNum: a list of strings and the list sorted with key=AlphaNum
    rounded,   \* mround: the arguments of a call and its outcome, NoObject before the call
    dm,        \* DictModel: _mdl_dc, _listeners_dc and what the last method call did
    compared   \* AlphaNum: two strings, what the comparisons made of them, and the loop of cmp_alphanum

vars == <<data, obs, lims, ofc, chart, built, shown, spec, capa, cell, names, rounded, dm, compared>>

-----------------------------------------------------------------------------
(* Bounds of the model *)

\* longest series drawn over the five levels -2..2
MaxLen == 5
\* longest series drawn over the three levels -1..1
MaxLong == 9
\* longest patterned series (constant or alternating, one point changed)
MaxRun == 16
\* longest calibration series of an XmrChart
MaxCal == 3
\* longest series of new data plotted on an XmrChart
MaxNew == 2

-----------------------------------------------------------------------------
(* Python and numpy primitives *)

\* an optional argument: None, or Some(v) for the value v
None == <<>>
Some(v) == <<v>>
\* a variable that holds no object yet, and one that holds no output yet
NoObject == [none |-> TRUE]
NoOutput == [none |-> TRUE]
\* the outcome of a call that raised the exception e
Raised(e) == [error |-> e]

Max(a, b) == IF a >= b THEN a ELSE b
Min(a, b) == IF a <= b THEN a ELSE b
Abs(a) == IF a < 0 THEN -a ELSE a

RECURSIVE GCD(_, _)
GCD(a, b) == IF b = 0 THEN a ELSE GCD(b, a % b)

NaN == <<0, 0>>
QI(k) == <<k, 1>>
IsNaN(a) == a = NaN
Sgn(k) == IF k > 0 THEN 1 ELSE IF k < 0 THEN -1 ELSE 0

\* the float n/d in lowest terms; x/0 is inf, -inf or nan as numpy gives it
Q(n, d) ==
    IF d = 0 THEN <<Sgn(n), 0>>
    ELSE LET g == GCD(Abs(n), Abs(d))
             s == IF d < 0 THEN -1 ELSE 1
         IN  <<(s * n) \div g, (s * d) \div g>>

QAdd(a, b) ==
    IF a[2] = 0 \/ b[2] = 0
    THEN IF IsNaN(a) \/ IsNaN(b) THEN NaN
         ELSE IF a[2] = 0 /\ b[2] = 0 THEN (IF a[1] = b[1] THEN a ELSE NaN)
         ELSE IF a[2] = 0 THEN a ELSE b
    ELSE LET g == GCD(a[2], b[2])
         IN  Q(a[1] * (b[2] \div g) + b[1] * (a[2] \div g), (a[2] \div g) * b[2])

QNeg(a) == <<-a[1], a[2]>>
QSub(a, b) == QAdd(a, QNeg(b))

QMul(a, b) ==
    IF a[2] = 0 \/ b[2] = 0
    THEN IF IsNaN(a) \/ IsNaN(b) \/ a[1] = 0 \/ b[1] = 0 THEN NaN
         ELSE <<Sgn(a[1]) * Sgn(b[1]), 0>>
    ELSE LET g1 == GCD(Abs(a[1]), b[2])
             g2 == GCD(Abs(b[1]), a[2])
         IN  Q((a[1] \div g1) * (b[1] \div g2), (a[2] \div g2) * (b[2] \div g1))

\* numpy float division: a finite x / 0 is +-inf, 0 / 0 is nan
QDiv(a, b) ==
    IF IsNaN(a) \/ IsNaN(b) THEN NaN
    ELSE IF b[2] = 0 THEN (IF a[2] = 0 THEN NaN ELSE QI(0))
    ELSE IF b[1] = 0 THEN <<Sgn(a[1]), 0>>
    ELSE IF a[2] = 0 THEN <<a[1] * Sgn(b[1]), 0>>
    ELSE QMul(a, Q(b[2], b[1]))

\* a < b on floats: False as soon as one side is nan
QLt(a, b) ==
    IF a[2] = 1 /\ b[2] = 1 THEN a[1] < b[1]
    ELSE IF IsNaN(a) \/ IsNaN(b) THEN FALSE
    ELSE IF a[2] = 0 \/ b[2] = 0
         THEN (IF a[2] = 0 /\ b[2] = 0 THEN a[1] < b[1]
               ELSE IF a[2] = 0 THEN a[1] < 0 ELSE b[1] > 0)
    ELSE a[1] * b[2] < b[1] * a[2]

QGt(a, b) == QLt(b, a)
QLe(a, b) == ~IsNaN(a) /\ ~IsNaN(b) /\ ~QLt(b, a)
QGe(a, b) == QLe(b, a)

\* range(n) as a list
range(n) == [k \in 1..Max(n, 0) |-> k - 1]

\* s[i:j] for 0 <= i: the slice stops at the end of s
Slice(s, i, j) == SubSeq(s, i + 1, Min(j, Len(s)))

\* a[mask] for a boolean mask of the length of a
BoolIndex(a, mask) ==
    LET F[k \in 0..Len(a)] ==
            IF k = 0 THEN <<>>
            ELSE IF mask[k] THEN Append(F[k - 1], a[k]) ELSE F[k - 1]
    IN  F[Len(a)]

\* a[idx] for a list idx of 0-based positions
FancyIndex(a, idx) == [k \in DOMAIN idx |-> a[idx[k] + 1]]

\* mask.sum() of a boolean mask
CountTrue(mask) == Cardinality({k \in DOMAIN mask : mask[k]})

\* all(mask)
All(mask) == \A k \in DOMAIN mask : mask[k]

\* set(lst)
SetOf(lst) == {lst[k] : k \in DOMAIN lst}

\* sorted(S) for a set of integers
RECURSIVE sorted(_)
sorted(S) ==
    IF S = {} THEN <<>>
    ELSE LET m == CHOOSE x \in S : \A y \in S : x <= y
         IN  <<m>> \o sorted(S \ {m})

\* zip(d, d[1:]) as a list of pairs
ZipNext(d) == [k \in 1..(Len(d) - 1) |-> <<d[k], d[k + 1]>>]

-----------------------------------------------------------------------------
(* spc_rules (src/pefc/qctools.py:193-281) *)

\* data > lim and data < lim, elementwise
MaskGt(d, lim) == [k \in DOMAIN d |-> QGt(QI(d[k]), lim)]
MaskLt(d, lim) == [k \in DOMAIN d |-> QLt(QI(d[k]), lim)]
MaskOr(m1, m2) == [k \in DOMAIN m1 |-> m1[k] \/ m2[k]]

\* data >= lim, elementwise
MaskGe(d, lim) == [k \in DOMAIN d |-> QGe(QI(d[k]), lim)]

\* rule 1 with >= for > at the upper limit
rule1_mask_ge(d, ucl, lcl) == MaskOr(MaskGe(d, ucl), MaskLt(d, lcl))

\* rule 1: the mask (data > ucl) | (data < lcl)
rule1_mask(d, ucl, lcl) == MaskOr(MaskGt(d, ucl), MaskLt(d, lcl))

\* the passes of "for i in range(m)", numbered from 1: pass k has i = k - 1
Passes(m) == 1..Max(m, 0)

\* the list that ofcN_ind.extend(...) builds over the passes of a loop,
\* exts[k] being what pass k appends
Extended(exts) ==
    LET F[k \in 0..Len(exts)] == IF k = 0 THEN <<>> ELSE F[k - 1] \o exts[k]
    IN  F[Len(exts)]

\* rule 2: what the loop body appends for the window that starts at i
rule2_ext(d, index, ucl_b, lcl_b) ==
    IF CountTrue(MaskGt(d, ucl_b)) = 2 \/ CountTrue(MaskLt(d, lcl_b)) = 2
    THEN BoolIndex(index, MaskOr(MaskGt(d, ucl_b), MaskLt(d, lcl_b)))
    ELSE <<>>

\* rule 3: what the loop body appends for the window that starts at i
rule3_ext(d, index, ucl_c, lcl_c) ==
    IF CountTrue(MaskGt(d, ucl_c)) = 4 \/ CountTrue(MaskLt(d, lcl_c)) = 4
    THEN BoolIndex(index, MaskOr(MaskGt(d, ucl_c), MaskLt(d, lcl_c)))
    ELSE <<>>

\* rule 4 counting the points on the center line as above it
rule4_ext_ge(d, index, cl) ==
    IF CountTrue(MaskGe(d, cl)) = 9 \/ CountTrue(MaskLt(d, cl)) = 9
    THEN index ELSE <<>>

\* rule 4
rule4_ext(d, index, cl) ==
    IF CountTrue(MaskGt(d, cl)) = 9 \/ CountTrue(MaskLt(d, cl)) = 9
    THEN index ELSE <<>>

\* rule 5 with strict comparisons, which equal neighbours would break
rule5_ext_strict(d, index) ==
    LET z == ZipNext(d)
    IN  IF (\A k \in DOMAIN z : z[k][1] < z[k][2])
           \/ (\A k \in DOMAIN z : z[k][1] > z[k][2])
        THEN index ELSE <<>>

\* rule 5
rule5_ext(d, index) ==
    LET z == ZipNext(d)
    IN  IF (\A k \in DOMAIN z : z[k][1] <= z[k][2])
           \/ (\A k \in DOMAIN z : z[k][1] >= z[k][2])
        THEN index ELSE <<>>

\* rule 6
rule6_ext(d, index, ucl_c, lcl_c) ==
    IF All(MaskGt(d, ucl_c)) \/ All(MaskLt(d, lcl_c)) THEN index ELSE <<>>

\* rule 7 with <= for < at both boundaries of the C zone
rule7_ext_le(d, index, ucl_c, lcl_c) ==
    IF All(MaskGe(d, lcl_c)) /\ ~(\E k \in DOMAIN d : QGt(QI(d[k]), ucl_c))
    THEN index ELSE <<>>

\* rule 7
rule7_ext(d, index, ucl_c, lcl_c) ==
    IF All(MaskGt(d, lcl_c)) /\ All(MaskLt(d, ucl_c)) THEN index ELSE <<>>

\* rule 8 asking only that no two successive differences have the same sign
rule8_ext_le(d, index) ==
    LET z == ZipNext(d)
        diff == [k \in DOMAIN z |-> z[k][2] - z[k][1]]
        zz == ZipNext(diff)
    IN  IF \A k \in DOMAIN zz : zz[k][1] * zz[k][2] <= 0 THEN index ELSE <<>>

\* rule 8
rule8_ext(d, index) ==
    LET z == ZipNext(d)
        diff == [k \in DOMAIN z |-> z[k][2] - z[k][1]]
        zz == ZipNext(diff)
    IN  IF \A k \in DOMAIN zz : zz[k][1] * zz[k][2] < 0 THEN index ELSE <<>>

\* the pair of a rule without sorted(set(...)) on the collected list
Collected_raw(dat, ob, lst) == <<FancyIndex(dat, lst), FancyIndex(ob, lst)>>

\* the pair (ofcN, ofcN_obs) of a rule whose loop collected the list lst
Collected(dat, ob, lst) ==
    LET ofc_ind == sorted(SetOf(lst))
    IN  <<FancyIndex(dat, ofc_ind), FancyIndex(ob, ofc_ind)>>

\* a loop that runs once more than range(n - (w - 1))
LoopCount_more(n, w) == n - (w - 2)

\* the argument of range() in the loop of a rule whose window is w wide:
\* n-2, n-4, n-8, n-6, n-7, n-14 and n-13 for w = 3, 5, 9, 7, 8, 15 and 14
LoopCount(n, w) == n - (w - 1)

spc_rules(dat, ob, cl, ucl, ucl_b, ucl_c, lcl, lcl_b, lcl_c) ==
    LET n == Len(dat)
        ind == range(n)
        W(i, w) == Slice(dat, i, i + w)
        X(i, w) == Slice(ind, i, i + w)
        E2(i) == rule2_ext(W(i, 3), X(i, 3), ucl_b, lcl_b)
        E3(i) == rule3_ext(W(i, 5), X(i, 5), ucl_c, lcl_c)
        E4(i) == rule4_ext(W(i, 9), X(i, 9), cl)
        E5(i) == rule5_ext(W(i, 7), X(i, 7))
        E6(i) == rule6_ext(W(i, 8), X(i, 8), ucl_c, lcl_c)
        E7(i) == rule7_ext(W(i, 15), X(i, 15), ucl_c, lcl_c)
        E8(i) == rule8_ext(W(i, 14), X(i, 14))
        m1 == rule1_mask(dat, ucl, lcl)
    IN  <<BoolIndex(dat, m1), BoolIndex(ob, m1)>>
        \o Collected(dat, ob, Extended([k \in Passes(LoopCount(n, 3)) |-> E2(k - 1)]))
        \o Collected(dat, ob, Extended([k \in Passes(LoopCount(n, 5)) |-> E3(k - 1)]))
        \o Collected(dat, ob, Extended([k \in Passes(LoopCount(n, 9)) |-> E4(k - 1)]))
        \o Collected(dat, ob, Extended([k \in Passes(LoopCount(n, 7)) |-> E5(k - 1)]))
        \o Collected(dat, ob, Extended([k \in Passes(LoopCount(n, 8)) |-> E6(k - 1)]))
        \o Collected(dat, ob, Extended([k \in Passes(LoopCount(n, 15)) |-> E7(k - 1)]))
        \o Collected(dat, ob, Extended([k \in Passes(LoopCount(n, 14)) |-> E8(k - 1)]))

\* the boundaries of a chart whose zones are u wide: cl = 0, ucl = 3u
Lims(u) ==
    [cl |-> QI(0),
     ucl |-> QMul(QI(3), u), ucl_b |-> QMul(QI(2), u), ucl_c |-> u,
     lcl |-> QMul(QI(-3), u), lcl_b |-> QMul(QI(-2), u), lcl_c |-> QNeg(u)]

\* all sequences over S of length 0..n
SeqsUpTo(S, n) == UNION {[1..k -> S] : k \in 0..n}

\* labels: observation numbers counted from 1, as the charts generate them
Labels(n) == [k \in 1..n |-> k]

\* the other components before anything is constructed
NoChart == chart = NoObject /\ built = NoObject /\ shown = NoOutput
NoSpec == spec = NoObject
NoCapability == capa = NoObject
NoCell == cell = NoObject
NoNames == names = NoObject
\* nothing of the other components
NoRounded == rounded = NoObject
NoModel == dm = NoObject
NoCompared == compared = NoObject
NoOthers ==
    /\ NoCapability /\ NoCell /\ NoNames
    /\ NoRounded /\ NoModel /\ NoCompared

\* a call of spc_rules about to be made on the series dat against lm
RulesInputs(D, L) ==
    /\ data \in D
    /\ obs = Labels(Len(data))
    /\ lims \in L
    /\ ofc = <<>>
    /\ NoChart /\ NoSpec /\ NoOthers

\* the series [10, 10, 10, 50] against an upper limit of 20
ExampleLims ==
    [cl |-> QI(10), ucl |-> QI(20), ucl_b |-> Q(50, 3), ucl_c |-> Q(40, 3),
     lcl |-> QI(0), lcl_b |-> Q(10, 3), lcl_c |-> Q(20, 3)]

\* short series over five levels: with the zone width 1/3, 1/2 or 1 the
\* levels 1 and 2 fall on, inside and beyond each of ucl_c, ucl_b and ucl
RulesInit ==
    \/ RulesInputs(SeqsUpTo(-2..2, MaxLen), {Lims(Q(1, 3)), Lims(Q(1, 2)), Lims(QI(1))})
    \/ RulesInputs({<<10, 10, 10, 50>>}, {ExampleLims})

\* longer series: over three levels, below, on and above the center line,
\* and still longer ones over the two levels off the center line; the
\* levels -1 and 1 are beyond the C zone
LongInit ==
    RulesInputs(SeqsUpTo(-1..1, MaxLong) \cup SeqsUpTo({-1, 1}, MaxLong + 3),
                {Lims(Q(1, 2))})

\* series over the two levels 0 and 2 that are constant or alternate, and
\* the same with one point changed to the other level
Constant(n, v) == [p \in 1..n |-> v]
Alternating(n, v) == [p \in 1..n |-> IF p % 2 = 1 THEN v ELSE 2 - v]
Patterned(n) ==
    LET base == {Constant(n, 0), Constant(n, 2), Alternating(n, 0), Alternating(n, 2)}
    IN  base \cup {[s EXCEPT ![k] = 2 - @] : s \in base, k \in 1..n}
             \cup {[s EXCEPT ![k] = 3] : s \in base, k \in 1..n}

\* limits around the center line 2 with zones of width 2: the level 0 is on
\* the lower boundary of the C zone, the levels 2 and 3 are inside it
ShiftedLims ==
    [cl |-> QI(2), ucl |-> QI(8), ucl_b |-> QI(6), ucl_c |-> QI(4),
     lcl |-> QI(-4), lcl_b |-> QI(-2), lcl_c |-> QI(0)]

\* the longest series, over the levels 0 and 2: every series up to MaxLong
\* points, and the patterned ones up to MaxRun points, where one point may
\* be at the level 3.  With the zone width 1/2 the level 0 is inside the C
\* zone and 2 beyond the upper control limit, with the zone width 2 the
\* level 2 is on the upper boundary of the C zone
RunInit ==
    RulesInputs(SeqsUpTo({0, 2}, MaxLong) \cup UNION {Patterned(n) : n \in 0..MaxRun},
                {Lims(Q(1, 2)), Lims(QI(2)), ShiftedLims})

\* one call spc_rules(data, obs, cl, ucl, ucl_b, ucl_c, lcl, lcl_b, lcl_c)
Evaluate ==
    /\ ofc = <<>>
    /\ ofc' = spc_rules(data, obs, lims.cl, lims.ucl, lims.ucl_b, lims.ucl_c,
                        lims.lcl, lims.lcl_b, lims.lcl_c)
    /\ UNCHANGED <<data, obs, lims, chart, built, shown, spec, capa, cell, names, rounded, dm, compared>>

RulesNext == Evaluate

SpecRules == RulesInit /\ [][RulesNext]_vars
SpecRulesLong == LongInit /\ [][RulesNext]_vars
SpecRulesRun == RunInit /\ [][RulesNext]_vars

-----------------------------------------------------------------------------
(* XmrChart (src/pefc/qctools.py:289-504) *)

\* the sum of the floats s[lo..hi], added by halves
RECURSIVE PairwiseSum(_, _, _)
PairwiseSum(s, lo, hi) ==
    IF lo > hi THEN QI(0)
    ELSE IF lo = hi THEN s[lo]
    ELSE LET mid == (lo + hi) \div 2
         IN  QAdd(PairwiseSum(s, lo, mid), PairwiseSum(s, mid + 1, hi))

\* sum of a list of integers
SumSeq(s) == PairwiseSum([k \in 1..Len(s) |-> QI(s[k])], 1, Len(s))[1]

\* a.mean() of a numpy array of integers: nan for the empty array
Mean(a) == QDiv(QI(SumSeq(a)), QI(Len(a)))

\* the float sqrt(q), kept exact by its radicand
Sqrt(q) == <<"sqrt", q>>

\* np.std(a, ddof=1): nan for fewer than two values
NpStd(a) ==
    LET m == Mean(a)
        sq == [k \in 1..Len(a) |-> QMul(QSub(QI(a[k]), m), QSub(QI(a[k]), m))]
    IN  Sqrt(QDiv(PairwiseSum(sq, 1, Len(a)), QI(Max(Len(a) - 1, 0))))

\* the chart constants, in thousandths, for subgroup sizes 2 to 10
subgroup == 2
e2_ == <<2660, 1772, 1457, 1290, 1184, 1109, 1054, 1010, 975>>
d4_ == <<3268, 2574, 2282, 2114, 2004, 1924, 1864, 1816, 1777>>
d2_ == <<1128, 1693, 2059, 2326, 2534, 2704, 2847, 2970, 3078>>
Thousandths(k) == Q(k, 1000)

\* the moving ranges abs(v - u) of zip(x, x[1:])
MovingRange(x) == [k \in 1..(Len(x) - 1) |-> Abs(x[k + 1] - x[k])]

\* the zone boundaries taken as fractions of the limit, not of its distance
\* from the center line
IChart_scaled(x_bar, mr_bar, e2) ==
    [x_ucl   |-> QAdd(x_bar, QMul(e2, mr_bar)),
     x_ucl_c |-> QMul(QAdd(x_bar, QMul(e2, mr_bar)), Q(1, 3)),
     x_ucl_b |-> QMul(QAdd(x_bar, QMul(e2, mr_bar)), Q(2, 3)),
     x_lcl   |-> QSub(x_bar, QMul(e2, mr_bar)),
     x_lcl_c |-> QMul(QSub(x_bar, QMul(e2, mr_bar)), Q(1, 3)),
     x_lcl_b |-> QMul(QSub(x_bar, QMul(e2, mr_bar)), Q(2, 3))]

\* the six limits of the I chart
IChart(x_bar, mr_bar, e2) ==
    [x_ucl   |-> QAdd(x_bar, QMul(e2, mr_bar)),
     x_ucl_c |-> QAdd(x_bar, QMul(QMul(e2, mr_bar), Q(1, 3))),
     x_ucl_b |-> QAdd(x_bar, QMul(QMul(e2, mr_bar), Q(2, 3))),
     x_lcl   |-> QSub(x_bar, QMul(e2, mr_bar)),
     x_lcl_c |-> QSub(x_bar, QMul(QMul(e2, mr_bar), Q(1, 3))),
     x_lcl_b |-> QSub(x_bar, QMul(QMul(e2, mr_bar), Q(2, 3)))]

\* if v < 0: v = 0
ClampAtZero(v) == IF QLt(v, QI(0)) THEN QI(0) ELSE v

\* the six limits of the MR chart
MRChart(mr_bar, d4) ==
    LET mr_ucl == QMul(d4, mr_bar)
    IN  [mr_ucl   |-> mr_ucl,
         mr_ucl_c |-> QAdd(mr_bar, QMul(QSub(mr_ucl, mr_bar), Q(1, 3))),
         mr_ucl_b |-> QAdd(mr_bar, QMul(QSub(mr_ucl, mr_bar), Q(2, 3))),
         mr_lcl   |-> QI(0),
         mr_lcl_c |-> ClampAtZero(QSub(mr_bar, QMul(QSub(mr_ucl, mr_bar), Q(1, 3)))),
         mr_lcl_b |-> ClampAtZero(QSub(mr_bar, QMul(QSub(mr_ucl, mr_bar), Q(2, 3))))]

\* XmrChart.__init__(self, obs, x): the attributes of the new object
XmrChart(ob, x) ==
    LET e2 == Thousandths(e2_[subgroup - 2 + 1])
        d4 == Thousandths(d4_[subgroup - 2 + 1])
        d2 == Thousandths(d2_[subgroup - 2 + 1])
        x_bar == Mean(x)
        mr == MovingRange(x)
        mr_bar == Mean(mr)
    IN  [x |-> x, obs |-> ob, n |-> Len(x), x_bar |-> x_bar,
         mr |-> mr, mr_bar |-> mr_bar,
         proc_mean |-> x_bar,
         proc_std_dev |-> QDiv(mr_bar, d2),
         total_std_dev |-> NpStd(x)]
        @@ IChart(x_bar, mr_bar, e2) @@ MRChart(mr_bar, d4)

\* what pyplot.plot raises for the x argument None at "plt.plot(obs, x, ...)"
\* is the library's choice: a ValueError where it rejects None, and
\* otherwise a ValueError for the shapes or the TypeError of the later
\* obs[1:]
NoneArgErrors == {"ValueError", "TypeError"}

\* a plot that calibrates the chart again on the data it is given
plot_recalibrating(self, new_obs, new_x, use_rules, none_arg) ==
    LET calib == new_obs = None /\ new_x = None
        me == IF calib \/ new_x = None \/ new_obs = None THEN self
              ELSE XmrChart(new_obs[1], new_x[1])
        x_ofc == spc_rules(me.x, me.obs, me.x_bar, me.x_ucl, me.x_ucl_b,
                           me.x_ucl_c, me.x_lcl, me.x_lcl_b, me.x_lcl_c)
        mr_ofc == spc_rules(me.mr, Slice(me.obs, 1, Len(me.obs)), me.mr_bar,
                            me.mr_ucl, me.mr_ucl_b, me.mr_ucl_c, me.mr_lcl,
                            me.mr_lcl_b, me.mr_lcl_c)
    IN  IF ~calib /\ new_x = None
        THEN [self |-> self, out |-> Raised("TypeError")]
        ELSE IF ~calib /\ new_obs = None
        THEN [self |-> self,
              out |-> Raised(IF use_rules THEN "TypeError" ELSE none_arg)]
        ELSE IF me.n = 0
        THEN [self |-> me, out |-> Raised("ValueError")]
        ELSE [self |-> me,
              out |-> [x |-> me.x, obs |-> me.obs, mr |-> me.mr,
                       use_rules |-> use_rules,
                       x_ofc |-> IF use_rules THEN x_ofc ELSE <<>>,
                       mr_ofc |-> IF use_rules THEN mr_ofc ELSE <<>>]]

\* XmrChart.plot(self, new_obs, new_x, use_rules): the object afterwards
\* (self) and what the call evaluated and drew (out), or the error it
\* raised: a TypeError where the code takes len() of None or spc_rules
\* subscripts None, the error none_arg where pyplot.plot is given None, and
\* the ValueError of np.ones(n-1) for a series without points, raised when
\* the rules are evaluated and the I chart is drawn
plot(self, new_obs, new_x, use_rules, none_arg) ==
    LET calib == new_obs = None /\ new_x = None
        x == IF calib THEN self.x ELSE new_x[1]
        n == IF calib THEN self.n ELSE Len(x)
        ob == IF calib THEN self.obs ELSE new_obs[1]
        mr == IF calib THEN self.mr ELSE MovingRange(x)
        x_ofc == spc_rules(x, ob, self.x_bar, self.x_ucl, self.x_ucl_b,
                           self.x_ucl_c, self.x_lcl, self.x_lcl_b, self.x_lcl_c)
        mr_ofc == spc_rules(mr, Slice(ob, 1, Len(ob)), self.mr_bar, self.mr_ucl,
                            self.mr_ucl_b, self.mr_ucl_c, self.mr_lcl,
                            self.mr_lcl_b, self.mr_lcl_c)
    IN  IF ~calib /\ new_x = None
        THEN [self |-> self, out |-> Raised("TypeError")]
        ELSE IF ~calib /\ new_obs = None
        THEN [self |-> self,
              out |-> Raised(IF use_rules THEN "TypeError" ELSE none_arg)]
        ELSE IF n = 0
        THEN [self |-> self, out |-> Raised("ValueError")]
        ELSE [self |-> self,
              out |-> [x |-> x, obs |-> ob, mr |-> mr, use_rules |-> use_rules,
                       x_ofc |-> IF use_rules THEN x_ofc ELSE <<>>,
                       mr_ofc |-> IF use_rules THEN mr_ofc ELSE <<>>]]

\* the calibration series and the monitoring series the model draws
CalSeries == SeqsUpTo({-2, 0, 1}, MaxCal)
NewSeries == SeqsUpTo({0, 5}, MaxNew)

XmrInit ==
    /\ NoChart
    /\ data = <<>> /\ obs = <<>> /\ lims = Lims(QI(1)) /\ ofc = <<>>
    /\ NoSpec /\ NoOthers

\* chart = XmrChart(obs, x)
Construct ==
    /\ chart = NoObject
    /\ \E x \in CalSeries :
          /\ chart' = XmrChart(Labels(Len(x)), x)
          /\ built' = chart'
    /\ UNCHANGED <<data, obs, lims, ofc, shown, spec, capa, cell, names, rounded, dm, compared>>

\* chart.plot(new_obs, new_x, use_rules) with new data, or with one of the
\* two arguments left out
PlotNew ==
    /\ chart # NoObject
    /\ \E new_x \in {Some(x) : x \in NewSeries} \cup {None},
          given \in BOOLEAN, use_rules \in BOOLEAN, none_arg \in NoneArgErrors :
          /\ new_x # None \/ given
          /\ LET new_obs == IF ~given THEN None
                            ELSE IF new_x = None THEN Some(<<>>)
                            ELSE Some(Labels(Len(new_x[1])))
                 r == plot(chart, new_obs, new_x, use_rules, none_arg)
             IN  chart' = r.self /\ shown' = r.out
    /\ UNCHANGED <<data, obs, lims, ofc, built, spec, capa, cell, names, rounded, dm, compared>>

\* chart.plot(use_rules=...) on the calibration data
PlotCalibration ==
    /\ chart # NoObject
    /\ \E use_rules \in BOOLEAN, none_arg \in NoneArgErrors :
          LET r == plot(chart, None, None, use_rules, none_arg)
          IN  chart' = r.self /\ shown' = r.out
    /\ UNCHANGED <<data, obs, lims, ofc, built, spec, capa, cell, names, rounded, dm, compared>>

XmrNext == Construct \/ PlotNew \/ PlotCalibration

SpecXmr == XmrInit /\ [][XmrNext]_vars

-----------------------------------------------------------------------------
(* XBarRChart (src/pefc/qctools.py:507-582) *)

\* the chart constants D4, D3, A2 and d2, in thousandths, for the subgroup
\* sizes 2 to 25
xbar_d4_ ==
    <<3267, 2574, 2282, 2114, 2004, 1924, 1864, 1816,
      1777, 1744, 1717, 1693, 1672, 1653, 1637, 1622,
      1608, 1597, 1585, 1575, 1566, 1557, 1548, 1541>>
xbar_d3_ ==
    <<0, 0, 0, 0, 0, 76, 136, 184,
      223, 256, 283, 307, 328, 347, 363, 378,
      391, 403, 415, 425, 434, 443, 451, 459>>
xbar_a2_ ==
    <<1880, 1023, 729, 577, 483, 419, 373, 337,
      308, 285, 266, 249, 235, 223, 212, 203,
      194, 187, 180, 173, 167, 162, 157, 153>>
xbar_d2_ ==
    <<1128, 1693, 2059, 2326, 2534, 2704, 2847, 2970,
      3078, 3173, 3258, 3336, 3407, 3472, 3532, 3588,
      3640, 3689, 3735, 3778, 3819, 3858, 3895, 3931>>

\* lst[i] of a Python list: a negative i counts from the end, and an i
\* outside the list raises IndexError (None here)
ListItem(lst, i) ==
    LET j == IF i < 0 THEN i + Len(lst) ELSE i
    IN  IF j < 0 \/ j >= Len(lst) THEN None ELSE Some(lst[j + 1])

\* the place of the constants of the next subgroup size
ConstIndex_next(n) == n - 1

\* the place n-2 of the constants of subgroup size n in the four tables
ConstIndex(n) == n - 2

\* a 2D numpy array of k rows and n columns
Matrix(k, n, rows) == [shape |-> <<k, n>>, rows |-> rows]

\* sum and mean of a list of floats: nan for the empty list
SumQ(s) == PairwiseSum(s, 1, Len(s))
MeanQ(a) == QDiv(SumQ(a), QI(Len(a)))

\* the largest and the smallest item of a list that is not empty
MaxOf(row) == CHOOSE v \in SetOf(row) : \A u \in SetOf(row) : u <= v
MinOf(row) == CHOOSE v \in SetOf(row) : \A u \in SetOf(row) : v <= u

\* the items of a matrix in one list, row after row
Flat(rows) ==
    LET F[k \in 0..Len(rows)] == IF k = 0 THEN <<>> ELSE F[k - 1] \o rows[k]
    IN  F[Len(rows)]

\* XBarRChart.__init__(self, subgn, data): the attributes of the new object
\* and, under locals, the constants it looked up; or the error raised:
\* ValueError by max/min along an axis of length 0, IndexError by the lookup
XBarRChart(subgn, m2d) ==
    LET k == m2d.shape[1]
        n == m2d.shape[2]
        x_bar == [i \in 1..k |-> Mean(m2d.rows[i])]
        x_bar_bar == MeanQ(x_bar)
        r == [i \in 1..k |-> MaxOf(m2d.rows[i]) - MinOf(m2d.rows[i])]
        r_bar == Mean(r)
        d4o == ListItem(xbar_d4_, ConstIndex(n))
        d3o == ListItem(xbar_d3_, ConstIndex(n))
        a2o == ListItem(xbar_a2_, ConstIndex(n))
        d2o == ListItem(xbar_d2_, ConstIndex(n))
        d4 == Thousandths(d4o[1])
        d3 == Thousandths(d3o[1])
        a2 == Thousandths(a2o[1])
        d2 == Thousandths(d2o[1])
        x_bar_ucl == QAdd(x_bar_bar, QMul(a2, r_bar))
        x_bar_lcl == QSub(x_bar_bar, QMul(a2, r_bar))
        r_ucl == QMul(d4, r_bar)
    IN  IF n = 0 THEN Raised("ValueError")
        ELSE IF d4o = None \/ d3o = None \/ a2o = None \/ d2o = None
        THEN Raised("IndexError")
        ELSE [m2d |-> m2d, subs |-> subgn, k |-> k, n |-> n, obs |-> k * n,
              x_bar |-> x_bar, x_bar_bar |-> x_bar_bar, r |-> r, r_bar |-> r_bar,
              x_bar_ucl   |-> x_bar_ucl,
              x_bar_ucl_b |-> QMul(x_bar_ucl, Q(2, 3)),
              x_bar_ucl_c |-> QMul(x_bar_ucl, Q(1, 3)),
              x_bar_lcl   |-> x_bar_lcl,
              x_bar_lcl_b |-> QMul(x_bar_lcl, Q(2, 3)),
              x_bar_lcl_c |-> QMul(x_bar_lcl, Q(1, 3)),
              r_ucl   |-> r_ucl,
              r_ucl_b |-> QAdd(r_bar, QMul(QSub(r_ucl, r_bar), Q(2, 3))),
              r_ucl_c |-> QAdd(r_bar, QMul(QSub(r_ucl, r_bar), Q(1, 3))),
              r_lcl   |-> QMul(d3, r_bar),
              r_lcl_b |-> ClampAtZero(QSub(r_bar, QMul(QSub(r_ucl, r_bar), Q(2, 3)))),
              r_lcl_c |-> ClampAtZero(QSub(r_bar, QMul(QSub(r_ucl, r_bar), Q(1, 3)))),
              proc_std_dev |-> QDiv(r_bar, d2),
              proc_mean |-> x_bar_bar,
              total_std_dev |-> NpStd(Flat(m2d.rows)),
              locals |-> [d4 |-> d4, d3 |-> d3, a2 |-> a2, d2 |-> d2]]

\* the largest subgroup size and number of subgroups the model draws
MaxSub == 27
MaxGroups == 2
\* the rows of n samples the model draws: all at one level, or the first
\* sample above the others
XBarLevels == {0, 1, 3}
RowsOf(n) ==
    {[j \in 1..n |-> IF j = 1 THEN p[2] ELSE p[1]] :
        p \in {q \in XBarLevels \X XBarLevels : q[1] <= q[2]}}
Matrices ==
    UNION {{Matrix(k, n, rows) : rows \in [1..k -> RowsOf(n)]} :
              k \in 0..MaxGroups, n \in 0..MaxSub}

XBarRInit ==
    /\ NoChart /\ NoSpec /\ NoOthers
    /\ data = <<>> /\ obs = <<>> /\ lims = Lims(QI(1)) /\ ofc = <<>>

\* chart = XBarRChart(subgn, data)
ConstructXBarR ==
    /\ chart = NoObject
    /\ \E m2d \in Matrices :
          /\ chart' = XBarRChart(Labels(m2d.shape[1]), m2d)
          /\ built' = [m2d |-> m2d, self |-> chart']
    /\ UNCHANGED <<data, obs, lims, ofc, shown, spec, capa, cell, names, rounded, dm, compared>>

XBarRNext == ConstructXBarR

SpecXBarR == XBarRInit /\ [][XBarRNext]_vars

-----------------------------------------------------------------------------
(* Spec (src/pefc/qctools.py:645-761) *)

\* the limits stored as they are given
FixLimits_asgiven(lsl, usl) == [lsl |-> lsl, usl |-> usl]

\* "fix confusion on limits": the two limits in order
FixLimits(lsl, usl) ==
    [lsl |-> IF lsl < usl THEN lsl ELSE usl,
     usl |-> IF usl > lsl THEN usl ELSE lsl]

\* the attributes _lsl, _usl and _nominal of a Spec object
SpecObject(l, u, t) == [lsl |-> l, usl |-> u, nominal |-> t]

\* the single limit stored on the side where it was given
OneLimit_positional(lim, nominal, first) ==
    IF first THEN SpecObject(QI(lim), NaN, QI(nominal))
    ELSE SpecObject(NaN, QI(lim), QI(nominal))

\* "fix spec confusion": a single limit, given in the first place of lims
\* (as LSL) or in the second (as USL), is stored on the side of the nominal
\* value it lies on
OneLimit(lim, nominal, first) ==
    IF first
    THEN IF nominal > lim
         THEN SpecObject(QI(lim), NaN, QI(nominal))
         ELSE SpecObject(NaN, QI(lim), QI(nominal))
    ELSE IF nominal < lim
         THEN SpecObject(NaN, QI(lim), QI(nominal))
         ELSE SpecObject(QI(lim), NaN, QI(nominal))

\* Spec.__init__(self, lims, nominal): the attributes of the new object, or
\* the ValueError raised.  lims is None or Some(tuple), the tuple's items
\* and nominal are None or Some(number)
SpecNew(lms, nominal) ==
    IF lms # None /\ Len(lms[1]) # 2 THEN Raised("ValueError")
    ELSE
    LET lsl == IF lms = None THEN None ELSE lms[1][1]
        usl == IF lms = None THEN None ELSE lms[1][2]
    IN  IF lsl # None /\ usl # None
        THEN LET f == FixLimits(lsl[1], usl[1])
             IN  IF nominal = None
                 THEN SpecObject(QI(f.lsl), QI(f.usl),
                                 QDiv(QI(lsl[1] + usl[1]), QI(2)))
                 ELSE IF nominal[1] > f.usl
                      THEN Raised("ValueError")
                      ELSE SpecObject(QI(f.lsl), QI(f.usl), QI(nominal[1]))
        ELSE IF lsl # None /\ usl = None
        THEN IF nominal = None
             THEN SpecObject(QI(lsl[1]), NaN, NaN)
             ELSE OneLimit(lsl[1], nominal[1], TRUE)
        ELSE IF lsl = None /\ usl # None
        THEN IF nominal = None
             THEN SpecObject(NaN, QI(usl[1]), NaN)
             ELSE OneLimit(usl[1], nominal[1], FALSE)
        ELSE SpecObject(NaN, NaN, IF nominal = None THEN NaN ELSE QI(nominal[1]))

\* the limit and target values the model draws, and the arguments made of them
SpecLevels == {-3, 0, 5, 7, 8}
OptLevels == {None} \cup {Some(v) : v \in SpecLevels}
LimsArgs ==
    {None}
    \cup {Some(<<a, b>>) : a \in OptLevels, b \in OptLevels}
    \cup {Some(<<>>), Some(<<Some(5)>>), Some(<<Some(5), Some(7), Some(8)>>)}

SpecInit ==
    /\ spec = NoObject
    /\ data = <<>> /\ obs = <<>> /\ lims = Lims(QI(1)) /\ ofc = <<>>
    /\ NoChart /\ NoOthers

\* spec = Spec(lims, nominal); the arguments are kept beside the outcome
NewSpec ==
    /\ \E lms \in LimsArgs, nominal \in OptLevels :
          spec' = [lims |-> lms, nominal |-> nominal, self |-> SpecNew(lms, nominal)]
    /\ UNCHANGED <<data, obs, lims, ofc, chart, built, shown, capa, cell, names, rounded, dm, compared>>

\* has_spec looking at the limits only
has_spec_limits(self) == ~(IsNaN(self.lsl) /\ IsNaN(self.usl))

\* Spec.has_spec(self)
has_spec(self) ==
    IF IsNaN(self.lsl) /\ IsNaN(self.usl) /\ IsNaN(self.nominal)
    THEN FALSE
    ELSE TRUE

\* spec.has_spec(); the answer is kept beside the object
HasSpec ==
    /\ spec # NoObject
    /\ "error" \notin DOMAIN spec.self
    /\ "has_spec" \notin DOMAIN spec
    /\ spec' = [lims |-> spec.lims, nominal |-> spec.nominal, self |-> spec.self,
                has_spec |-> has_spec(spec.self)]
    /\ UNCHANGED <<data, obs, lims, ofc, chart, built, shown, capa, cell, names, rounded, dm, compared>>

LimitsNext == NewSpec \/ HasSpec

SpecLimits == SpecInit /\ [][LimitsNext]_vars

-----------------------------------------------------------------------------
(* ProcessCapability (src/pefc/qctools.py:1323-1350) *)

\* k * s for the overall deviation s = sqrt(v), kept as the factor k and s
TimesSqrt(k, s) == [times |-> QI(k), sqrt |-> s[2]]

\* c / (k * sqrt(v)), kept as the coefficient c / k over the radicand v; it
\* is nan for v nan, and the float c / 0 for v = 0
OverSqrt(c, ks) ==
    IF IsNaN(ks.sqrt) \/ IsNaN(c) THEN [coef |-> NaN, rad |-> QI(1)]
    ELSE IF ks.sqrt = QI(0) THEN [coef |-> QDiv(c, QI(0)), rad |-> QI(1)]
    ELSE [coef |-> QDiv(c, ks.times), rad |-> ks.sqrt]

\* the larger of the two
min_max(a, b) == IF QLt(a, b) THEN b ELSE a

\* min((a, b)) of Python: the second if it is less than the first, else the
\* first
min(a, b) == IF QLt(b, a) THEN b ELSE a
\* the same for two values over the same radicand
min_sqrt(a, b) == IF QLt(b.coef, a.coef) THEN b ELSE a

\* ProcessCapability.__init__(self, chart, spec): the attributes of the new
\* object; chart.overall_std_dev is total_std_dev, chart.within_std_dev is
\* proc_std_dev
ProcessCapability(cht, spc) ==
    LET overall == cht.total_std_dev
        within == cht.proc_std_dev
        ppu == OverSqrt(QSub(spc.usl, cht.proc_mean), TimesSqrt(3, overall))
        ppl == OverSqrt(QSub(cht.proc_mean, spc.lsl), TimesSqrt(3, overall))
        cpu == QDiv(QSub(spc.usl, cht.proc_mean), QMul(QI(3), within))
        cpl == QDiv(QSub(cht.proc_mean, spc.lsl), QMul(QI(3), within))
    IN  [pp  |-> OverSqrt(QSub(spc.usl, spc.lsl), TimesSqrt(6, overall)),
         ppu |-> ppu,
         ppl |-> ppl,
         ppk |-> min_sqrt(ppu, ppl),
         cp  |-> QDiv(QSub(spc.usl, spc.lsl), QMul(QI(6), within)),
         cpu |-> cpu,
         cpl |-> cpl,
         cpk |-> min(cpu, cpl)]

CapabilityInit ==
    /\ NoChart /\ NoSpec /\ NoOthers
    /\ data = <<>> /\ obs = <<>> /\ lims = Lims(QI(1)) /\ ofc = <<>>

\* pc = ProcessCapability(chart, Spec(lims, nominal)); the statement raises
\* where Spec raises
Capability ==
    /\ chart # NoObject
    /\ capa = NoObject
    /\ \E lms \in LimsArgs, nominal \in OptLevels :
          LET self == SpecNew(lms, nominal)
          IN  /\ spec' = [lims |-> lms, nominal |-> nominal, self |-> self]
              /\ capa' = IF "error" \in DOMAIN self THEN self
                         ELSE ProcessCapability(chart, self)
    /\ UNCHANGED <<data, obs, lims, ofc, chart, built, shown, cell, names, rounded, dm, compared>>

CapabilityNext == Construct \/ Capability

SpecCapability == CapabilityInit /\ [][CapabilityNext]_vars

-----------------------------------------------------------------------------
(* XLDataLink cell references (src/pefc/xltab.py:256-273, 714-831) *)

\* A Python str is a sequence of its characters: 'A10' is <<"A", "1", "0">>.
UpperCase ==
    <<"A", "B", "C", "D", "E", "F", "G", "H", "I", "J", "K", "L", "M", "N", "O", "P", "Q", "R", "S", "T", "U", "V", "W", "X", "Y", "Z">>
LowerCase ==
    <<"a", "b", "c", "d", "e", "f", "g", "h", "i", "j", "k", "l", "m", "n", "o", "p", "q", "r", "s", "t", "u", "v", "w", "x", "y", "z">>
DigitChars == <<"0", "1", "2", "3", "4", "5", "6", "7", "8", "9">>
_sheet_ind == "!"
_fixed_ind == "$"

\* the place of ch in the list seq, counted from 1
IndexIn(seq, ch) == CHOOSE k \in DOMAIN seq : seq[k] = ch

\* ord(ch) and chr(code) for the letters, the digits, '!', '$', ' ' and '-'
ord(ch) ==
    IF ch \in SetOf(DigitChars) THEN 47 + IndexIn(DigitChars, ch)
    ELSE IF ch \in SetOf(UpperCase) THEN 64 + IndexIn(UpperCase, ch)
    ELSE IF ch \in SetOf(LowerCase) THEN 96 + IndexIn(LowerCase, ch)
    ELSE IF ch = "!" THEN 33
    ELSE IF ch = " " THEN 32
    ELSE IF ch = "-" THEN 45
    ELSE 36
chr(code) ==
    IF code \in 48..57 THEN DigitChars[code - 47]
    ELSE IF code \in 65..90 THEN UpperCase[code - 64]
    ELSE IF code \in 97..122 THEN LowerCase[code - 96]
    ELSE IF code = 33 THEN "!"
    ELSE IF code = 32 THEN " "
    ELSE IF code = 45 THEN "-"
    ELSE "$"

\* crs.upper()
str_upper(crs) ==
    [k \in DOMAIN crs |->
        IF crs[k] \in SetOf(LowerCase) THEN chr(ord(crs[k]) - 32) ELSE crs[k]]

\* crs.rfind(ch): the last 0-based place of ch, -1 without one
rfind(crs, ch) ==
    LET at == {k \in DOMAIN crs : crs[k] = ch}
    IN  IF at = {} THEN -1 ELSE (CHOOSE k \in at : \A j \in at : j <= k) - 1

\* str(n) of an integer
RECURSIVE str(_)
str(n) ==
    IF n < 0 THEN <<"-">> \o str(-n)
    ELSE IF n < 10 THEN <<chr(48 + n)>>
    ELSE Append(str(n \div 10), chr(48 + (n % 10)))

\* int(s) for a str of decimal digits; None where int raises ValueError
ParseInt(s) ==
    LET F[k \in 0..Len(s)] == IF k = 0 THEN 0 ELSE 10 * F[k - 1] + (ord(s[k]) - 48)
    IN  IF s = <<>> \/ \E k \in DOMAIN s : s[k] \notin SetOf(DigitChars)
        THEN None
        ELSE Some(F[Len(s)])

\* cref_num_index(crs): the 0-based place of the first digit after the
\* sheet name, len(crs) without one
cref_num_index(crs) ==
    LET pos == rfind(crs, _sheet_ind) + 1
        digits == {k \in (pos + 1)..Len(crs) : ord(crs[k]) \in 48..57}
    IN  IF digits = {} THEN Len(crs)
        ELSE (CHOOSE k \in digits : \A j \in digits : k <= j) - 1

\* cref_row_no(crs)
cref_row_no(crs) ==
    LET numindex == cref_num_index(crs)
        row == ParseInt(SubSeq(crs, numindex + 1, Len(crs)))
    IN  IF row = None THEN None ELSE Some(row[1] - 1)

\* the column number after one more letter, read as a plain base 26 digit
NextColnum_base26(colnum, first, letter) ==
    (IF first THEN colnum ELSE colnum * 26) + (ord(letter) - ord("A"))

\* one pass of the loop of cref_column_no over the letter at i
NextColnum(colnum, first, letter) ==
    (IF first THEN colnum ELSE (colnum + 1) * 26) + (ord(letter) - ord("A"))

\* cref_column_no(crs)
cref_column_no(crs) ==
    LET numindex == cref_num_index(crs)
        str2 == str_upper(crs)
        pos == rfind(crs, _sheet_ind) + 1
        start_pos == IF ListItem(crs, pos) = Some(_fixed_ind) THEN pos + 1 ELSE pos
        end_pos == IF ListItem(crs, numindex - 1) = Some(_fixed_ind)
                   THEN numindex - 1 ELSE numindex
        F[i \in (start_pos - 1)..Max(end_pos - 1, start_pos - 1)] ==
            IF i = start_pos - 1 THEN 0
            ELSE NextColnum(F[i - 1], i = start_pos, str2[i + 1])
    IN  F[Max(end_pos - 1, start_pos - 1)]

\* cref_coord(crs): the tuple (row_no, col_no), or the ValueError of int
cref_coord(crs) ==
    IF cref_row_no(crs) = None THEN Raised("ValueError")
    ELSE [coord |-> <<cref_row_no(crs)[1], cref_column_no(crs)>>]

\* the while loop of get_col_ref: the letters found, last letter first
RECURSIVE ColRefLoop(_, _)
ColRefLoop(col_remain, col_ref) ==
    IF col_remain > 0
    THEN LET part == col_remain % 26
             this_part == IF part = 0 THEN 26 ELSE part
         IN  ColRefLoop((col_remain - this_part) \div 26,
                        Append(col_ref, chr(this_part + 64)))
    ELSE col_ref

\* lst.reverse()
reverse(lst) == [k \in DOMAIN lst |-> lst[Len(lst) + 1 - k]]

\* get_col_ref(col_no)
get_col_ref(col_no) == reverse(ColRefLoop(col_no + 1, <<>>))

\* get_cell_ref(row_no, col_no, rowabs, colabs)
get_cell_ref(row_no, col_no, rowabs, colabs) ==
    (IF colabs THEN <<_fixed_ind>> ELSE <<>>)
    \o get_col_ref(col_no)
    \o (IF rowabs THEN <<_fixed_ind>> ELSE <<>>)
    \o str(row_no + 1)

\* the rows and columns the model draws: the first ones, and the ones at
\* which the reference gets one letter or one digit longer
MaxRow == 11
MaxCol == 53
RowNos == 0..MaxRow \cup {98, 99, 524, 999, 2799}
ColNos == 0..MaxCol \cup {255, 701, 702, 18277, 18278, 475253}

\* the parts of the cell references the model draws
SheetNames == {<<>>, <<"S", "h", "e", "e", "t", "!">>, <<"S", "h", "e", "e", "t", "1", "!">>}
ColLetters ==
    {<<"A">>, <<"a">>, <<"B">>, <<"z">>, <<"Z">>, <<"a", "a">>, <<"A", "z">>,
     <<"C", "D">>, <<"i", "v">>, <<"I", "V">>, <<"I", "v">>, <<"z", "z">>,
     <<"A", "D", "Z">>, <<"a", "d", "z">>, <<"z", "z", "z", "z">>}
RowDigits ==
    {<<"1">>, <<"9">>, <<"1", "0">>, <<"3", "5">>, <<"7", "8">>, <<"1", "0", "0">>,
     <<"5", "2", "5">>, <<"1", "0", "0", "0">>, <<"2", "8", "0", "0">>}

CellInit ==
    /\ NoChart /\ NoSpec /\ NoOthers
    /\ data = <<>> /\ obs = <<>> /\ lims = Lims(QI(1)) /\ ofc = <<>>

\* XLDataLink.cref_coord(XLDataLink.get_cell_ref(row_no, col_no, rowabs, colabs))
RefThenCoord ==
    /\ cell = NoObject
    /\ \E row_no \in RowNos, col_no \in ColNos, rowabs \in BOOLEAN, colabs \in BOOLEAN :
          LET ref == get_cell_ref(row_no, col_no, rowabs, colabs)
          IN  cell' = [row_no |-> row_no, col_no |-> col_no,
                       rowabs |-> rowabs, colabs |-> colabs,
                       ref |-> ref, back |-> cref_coord(ref)]
    /\ UNCHANGED <<data, obs, lims, ofc, chart, built, shown, spec, capa, names, rounded, dm, compared>>

\* XLDataLink.get_cell_ref(*XLDataLink.cref_coord(crs)) for the reference
\* crs written as sheet name, column letters and row digits with '$' marks
CoordThenRef ==
    /\ cell = NoObject
    /\ \E sheet \in SheetNames, letters \in ColLetters, digits \in RowDigits,
          rowabs \in BOOLEAN, colabs \in BOOLEAN :
          LET crs == sheet \o (IF colabs THEN <<_fixed_ind>> ELSE <<>>) \o letters
                     \o (IF rowabs THEN <<_fixed_ind>> ELSE <<>>) \o digits
              oval == cref_coord(crs)
          IN  cell' = [crs |-> crs, letters |-> letters, digits |-> digits,
                       coord |-> oval,
                       back |-> get_cell_ref(oval.coord[1], oval.coord[2], FALSE, FALSE)]
    /\ UNCHANGED <<data, obs, lims, ofc, chart, built, shown, spec, capa, names, rounded, dm, compared>>

CellNext == RefThenCoord \/ CoordThenRef

SpecCell == CellInit /\ [][CellNext]_vars

-----------------------------------------------------------------------------
(* AlphaNum (src/pefc/sortutils.py:22-116) *)

\* \d and \D of the regular expressions
IsDigit(ch) == ord(ch) \in 48..57

\* x < y on str: by the code of the first character that differs, a
\* proper prefix first
StrLt(x, y) ==
    \E k \in 1..Len(y) :
        /\ \A j \in 1..(k - 1) : j <= Len(x) /\ x[j] = y[j]
        /\ k > Len(x) \/ (k <= Len(x) /\ ord(x[k]) < ord(y[k]))

\* cmp(x, y) for str and for int: (x > y) - (x < y)
cmp_str(x, y) == IF StrLt(y, x) THEN 1 ELSE IF StrLt(x, y) THEN -1 ELSE 0
cmp_int(x, y) == IF x > y THEN 1 ELSE IF x < y THEN -1 ELSE 0

\* getchunk(item): the longest run of digits or of other characters item
\* starts with, and the rest of item
getchunk(item) ==
    LET ends == {k \in 1..Len(item) :
                    \A j \in 1..k : IsDigit(item[j]) = IsDigit(item[1])}
        stop == IF ends = {} THEN 0 ELSE CHOOSE k \in ends : \A j \in ends : j <= k
    IN  <<SubSeq(item, 1, stop), SubSeq(item, stop + 1, Len(item))>>

\* re_letters.match(c) and re_numbers.match(c)
re_letters(c) == c # <<>> /\ ~IsDigit(c[1])
re_numbers(c) == c # <<>> /\ IsDigit(c[1])

\* one pass of the loop without the branch that turns a tie of two chunks
\* of different kinds, or of two empty chunks, into 1
cmp_chunks_tie(ac, bc) ==
    IF re_letters(ac) /\ re_letters(bc) THEN cmp_str(ac, bc)
    ELSE IF re_numbers(ac) /\ re_numbers(bc)
         THEN cmp_int(ParseInt(ac)[1], ParseInt(bc)[1])
    ELSE cmp_str(ac, bc)

\* one pass of the loop of cmp_alphanum on the chunks ac and bc
cmp_chunks(ac, bc) ==
    IF re_letters(ac) /\ re_letters(bc) THEN cmp_str(ac, bc)
    ELSE IF re_numbers(ac) /\ re_numbers(bc)
         THEN cmp_int(ParseInt(ac)[1], ParseInt(bc)[1])
    ELSE IF cmp_str(ac, bc) = 0 THEN 1 ELSE cmp_str(ac, bc)

\* cmp_alphanum(a, b)
RECURSIVE cmp_alphanum(_, _)
cmp_alphanum(a, b) ==
    LET ga == getchunk(a)
        gb == getchunk(b)
        n == cmp_chunks(ga[1], gb[1])
    IN  IF n = 0 THEN cmp_alphanum(ga[2], gb[2]) ELSE n

\* AlphaNum(a) < AlphaNum(b)
__lt__(a, b) == cmp_alphanum(a, b) < 0

\* lst.sort(key=AlphaNum): each item goes in after the items already in
\* place that it is not less than
sort_alphanum(lst) ==
    LET F[k \in 0..Len(lst)] ==
            IF k = 0 THEN <<>>
            ELSE LET done == F[k - 1]
                     x == lst[k]
                     less == {p \in 1..Len(done) : __lt__(x, done[p])}
                     at == IF less = {} THEN Len(done) + 1
                           ELSE CHOOSE p \in less : \A q \in less : p <= q
                 IN  SubSeq(done, 1, at - 1) \o <<x>> \o SubSeq(done, at, Len(done))
    IN  F[Len(lst)]

\* the strings the model sorts, and the longest list of them
Names ==
    {<<>>,
     <<"z", "0">>,
     <<"z", "0", "0">>,
     <<"z", "0", "2">>,
     <<"z", "2">>,
     <<"z", "1", "0", "0">>,
     <<"2">>,
     <<"A", "l", "p", "h", "a", " ", "2", "A", "-", "9", "0", "0">>,
     <<"A", "l", "p", "h", "a", " ", "2", "A", "-", "8", "0", "0", "0">>}
MaxNames == 3

NamesInit ==
    /\ NoChart /\ NoSpec /\ NoOthers
    /\ data = <<>> /\ obs = <<>> /\ lims = Lims(QI(1)) /\ ofc = <<>>

\* sorted(lst, key=AlphaNum)
SortNames ==
    /\ names = NoObject
    /\ \E lst \in SeqsUpTo(Names, MaxNames) :
          names' = [given |-> lst, sorted |-> sort_alphanum(lst)]
    /\ UNCHANGED <<data, obs, lims, ofc, chart, built, shown, spec, capa, cell, rounded, dm, compared>>

NamesNext == SortNames

SpecNames == NamesInit /\ [][NamesNext]_vars

\* AlphaNum(a) == AlphaNum(b)
__eq__(a, b) == cmp_alphanum(a, b) = 0

\* the strings two AlphaNum objects are made of
Pairable == Names \cup {<<"a", "0", "1">>, <<"a", "1">>}

\* the comparisons of AlphaNum(a) and AlphaNum(b), each way round, and of
\* AlphaNum(a) with itself
Compare ==
    /\ compared = NoObject
    /\ \E a \in Pairable, b \in Pairable :
          compared' = [a |-> a, b |-> b,
                       ab |-> cmp_alphanum(a, b), ba |-> cmp_alphanum(b, a),
                       aa |-> cmp_alphanum(a, a), eq_aa |-> __eq__(a, a),
                       lt_ab |-> __lt__(a, b), lt_ba |-> __lt__(b, a)]
    /\ UNCHANGED <<data, obs, lims, ofc, chart, built, shown, spec, capa, cell, names, rounded, dm>>

CompareNext == Compare

SpecCompare == NamesInit /\ [][CompareNext]_vars

\* the passes of the loop of cmp_alphanum the model follows; the strings of
\* Pairable take five at most
MaxPasses == 7

\* cmp_alphanum(a, b) is entered: n = 0
Enter ==
    /\ compared = NoObject
    /\ \E a \in Pairable, b \in Pairable :
          compared' = [self |-> a, other |-> b, a |-> a, b |-> b,
                       ac |-> <<>>, bc |-> <<>>, before |-> <<a, b>>,
                       n |-> 0, passes |-> 0, pc |-> "while"]
    /\ UNCHANGED <<data, obs, lims, ofc, chart, built, shown, spec, capa, cell, names, rounded, dm>>

\* a pass of "while n == 0" begins: ac, a = getchunk(a); bc, b = getchunk(b).
\* before keeps the strings the pass began with
TakeChunks ==
    /\ compared # NoObject /\ compared.pc = "while" /\ compared.n = 0
    /\ compared.passes < MaxPasses
    /\ compared' = [compared EXCEPT !.ac = getchunk(compared.a)[1],
                                    !.a = getchunk(compared.a)[2],
                                    !.bc = getchunk(compared.b)[1],
                                    !.b = getchunk(compared.b)[2],
                                    !.before = <<compared.a, compared.b>>,
                                    !.pc = "chunks"]
    /\ UNCHANGED <<data, obs, lims, ofc, chart, built, shown, spec, capa, cell, names, rounded, dm>>

\* the pass ends: the chunks are compared into n
CompareChunks ==
    /\ compared # NoObject /\ compared.pc = "chunks"
    /\ compared' = [compared EXCEPT !.n = cmp_chunks(compared.ac, compared.bc),
                                    !.passes = @ + 1,
                                    !.pc = "while"]
    /\ UNCHANGED <<data, obs, lims, ofc, chart, built, shown, spec, capa, cell, names, rounded, dm>>

\* the loop is left and n returned
Return ==
    /\ compared # NoObject /\ compared.pc = "while" /\ compared.n # 0
    /\ compared' = [compared EXCEPT !.pc = "return"]
    /\ UNCHANGED <<data, obs, lims, ofc, chart, built, shown, spec, capa, cell, names, rounded, dm>>

LoopNext == Enter \/ TakeChunks \/ CompareChunks \/ Return

\* the loop runs on: a call that was entered takes its next step
SpecLoop ==
    /\ NamesInit /\ [][LoopNext]_vars
    /\ WF_vars(TakeChunks) /\ WF_vars(CompareChunks) /\ WF_vars(Return)

-----------------------------------------------------------------------------
(* mround (src/pefc/mlutils.py:231-380) *)

\* a Python int k and a Python float q as arguments
PyInt(k) == [int |-> k]
PyFloat(q) == [float |-> q]

\* _to_fractional_day for the numeric types: float(value)
_to_fractional_day(value) ==
    IF "int" \in DOMAIN value THEN QI(value.int) ELSE value.float

\* math.floor of a finite float
floor(x) == x[1] \div x[2]

\* math.copysign(1.0, x) of a float that is not a zero
copysign(x) == IF x[1] < 0 THEN QI(-1) ELSE QI(1)

\* Python's round(quotient): a half goes to the even neighbour
rounded_quotient_val_even(quotient) ==
    LET f == floor(quotient)
    IN  IF QSub(quotient, QI(f)) = Q(1, 2)
        THEN (IF f % 2 = 0 THEN f ELSE f + 1)
        ELSE floor(QAdd(quotient, Q(1, 2)))

\* rounded_quotient_val = math.floor(quotient + 0.5)
rounded_quotient_val(quotient) == floor(QAdd(quotient, Q(1, 2)))

\* the outcome of a call that returns the value v
Returned(v) == [value |-> v]

\* mround(number, multiple): the float it returns, or the error it raises
mround(number, multiple) ==
    LET num_float == _to_fractional_day(number)
        mult_float == _to_fractional_day(multiple)
    IN  IF mult_float = QI(0) THEN Returned(QI(0))
        ELSE IF num_float = QI(0) THEN Returned(QI(0))
        ELSE IF copysign(num_float) # copysign(mult_float) THEN Raised("ValueError")
        ELSE Returned(QMul(QI(rounded_quotient_val(QDiv(num_float, mult_float))),
                           mult_float))

\* the arguments are the ints up to MaxNum and the floats between them that
\* end in .5, of either sign
MaxNum == 11
Numbers ==
    {PyInt(k) : k \in (-MaxNum)..MaxNum}
        \cup {PyFloat(Q(2 * k + 1, 2)) : k \in (-MaxNum)..(MaxNum - 1)}

RoundInit ==
    /\ NoChart /\ NoSpec /\ NoOthers
    /\ data = <<>> /\ obs = <<>> /\ lims = Lims(QI(1)) /\ ofc = <<>>

\* mround(number, multiple)
Round ==
    /\ rounded = NoObject
    /\ \E number \in Numbers, multiple \in Numbers :
          rounded' = [number |-> number, multiple |-> multiple,
                      ret |-> mround(number, multiple)]
    /\ UNCHANGED <<data, obs, lims, ofc, chart, built, shown, spec, capa, cell, names, dm, compared>>

RoundNext == Round

SpecRound == RoundInit /\ [][RoundNext]_vars

-----------------------------------------------------------------------------
(* DictModel (src/pefc/genericmodels.py:19-174) *)

\* The dicts _mdl_dc and _listeners_dc are functions on their keys.  What
\* a method call does besides changing them is kept as its effect: how
\* often each listener was notified, and how many messages were printed.

\* the listeners: a has a notify method, the parent of b has one, c and its
\* parent have none
Listeners == {"a", "b", "c"}
has_notify(ltr) == ltr = "a"
parent_has_notify(ltr) == ltr = "b"

\* the fields of model_dict, and the field names the methods are called with
Fields == {"x", "y"}
FieldNames == Fields \cup {"q"}
Values == {0, 1}

\* d[key] = value on a dict
SetItem(d, key, value) ==
    [k \in DOMAIN d \cup {key} |-> IF k = key THEN value ELSE d[k]]

\* no notification and no message
NoEffect == [notified |-> [l \in Listeners |-> 0], printed |-> 0]
\* two effects one after the other
Then(e1, e2) ==
    [notified |-> [l \in Listeners |-> e1.notified[l] + e2.notified[l]],
     printed |-> e1.printed + e2.printed]
\* print(...)
Printed == [NoEffect EXCEPT !.printed = 1]

\* the notification of one listener: listener.notify(), or
\* listener.GetParent().notify(listener), or a message
NotifyOne(ltr) ==
    IF has_notify(ltr) \/ parent_has_notify(ltr)
    THEN [NoEffect EXCEPT !.notified[ltr] = 1]
    ELSE Printed

\* "for ltr in listeners": each listener of the set once
NotifyEach(listeners) ==
    [notified |-> [l \in Listeners |->
                      IF l \in listeners THEN NotifyOne(l).notified[l] ELSE 0],
     printed |-> Cardinality({l \in listeners : NotifyOne(l).printed = 1})]

\* DictModel(model_dict)
DictModel(model_dict) == [_mdl_dc |-> model_dict, _listeners_dc |-> <<>>]

\* self.register(field_name, listener): the object after the call and the
\* effect of the call
register(self, field_name, listener) ==
    LET kept ==
            IF field_name \in DOMAIN self._listeners_dc
            THEN [obj |-> [self EXCEPT !._listeners_dc[field_name] = @ \cup {listener}],
                  eff |-> NoEffect]
            ELSE IF field_name \in DOMAIN self._mdl_dc
            THEN [obj |-> [self EXCEPT !._listeners_dc =
                              SetItem(self._listeners_dc, field_name, {listener})],
                  eff |-> NoEffect]
            ELSE [obj |-> self, eff |-> Printed]
    IN  [obj |-> kept.obj, eff |-> Then(kept.eff, NotifyOne(listener))]

\* unregister that leaves the listener in the set
unregister_kept(self, field_name, listener) ==
    IF field_name \in DOMAIN self._listeners_dc \/ field_name \in DOMAIN self._mdl_dc
    THEN [obj |-> self, eff |-> NoEffect]
    ELSE [obj |-> self, eff |-> Printed]

\* self.unregister(field_name, listener)
unregister(self, field_name, listener) ==
    IF field_name \in DOMAIN self._listeners_dc
    THEN [obj |-> [self EXCEPT !._listeners_dc[field_name] = @ \ {listener}],
          eff |-> NoEffect]
    ELSE IF field_name \in DOMAIN self._mdl_dc
    THEN [obj |-> self, eff |-> NoEffect]
    ELSE [obj |-> self, eff |-> Printed]

\* self._notify_listeners(field_name): its effect
_notify_listeners(self, field_name) ==
    IF field_name \notin DOMAIN self._listeners_dc
    THEN (IF field_name \in DOMAIN self._mdl_dc THEN NoEffect ELSE Printed)
    ELSE IF Cardinality(self._listeners_dc[field_name]) = 0 THEN NoEffect
    ELSE NotifyEach(self._listeners_dc[field_name])

\* self.setvalue(field_name, new_value)
setvalue(self, field_name, new_value) ==
    LET stored ==
            IF field_name \in DOMAIN self._mdl_dc
            THEN [obj |-> [self EXCEPT !._mdl_dc[field_name] = new_value],
                  eff |-> NoEffect]
            ELSE [obj |-> self, eff |-> Printed]
    IN  [obj |-> stored.obj,
         eff |-> Then(stored.eff, _notify_listeners(stored.obj, field_name))]

\* the method calls made on one model
MaxOps == 4

ModelInit ==
    /\ NoChart /\ NoSpec /\ NoOthers
    /\ data = <<>> /\ obs = <<>> /\ lims = Lims(QI(1)) /\ ofc = <<>>

\* mdl = DictModel({'x': 0, 'y': 0}); registered is the history of the pairs
\* (field name, listener) registered and not unregistered since, again
\* those of them registered once more while they were registered
NewModel ==
    /\ dm = NoObject
    /\ dm' = [self |-> DictModel([f \in Fields |-> 0]),
              last |-> [op |-> "__init__"],
              registered |-> {}, again |-> {},
              ops |-> 0]
    /\ UNCHANGED <<data, obs, lims, ofc, chart, built, shown, spec, capa, cell, names, rounded, compared>>

\* mdl.register(field_name, listener)
Register ==
    /\ dm # NoObject /\ dm.ops < MaxOps
    /\ \E field_name \in FieldNames, listener \in Listeners :
          LET r == register(dm.self, field_name, listener)
          IN  dm' = [self |-> r.obj,
                     last |-> [op |-> "register", field_name |-> field_name,
                               listener |-> listener, eff |-> r.eff],
                     registered |-> dm.registered \cup {<<field_name, listener>>},
                     again |-> dm.again \cup ({<<field_name, listener>>} \cap dm.registered),
                     ops |-> dm.ops + 1]
    /\ UNCHANGED <<data, obs, lims, ofc, chart, built, shown, spec, capa, cell, names, rounded, compared>>

\* mdl.unregister(field_name, listener)
Unregister ==
    /\ dm # NoObject /\ dm.ops < MaxOps
    /\ \E field_name \in FieldNames, listener \in Listeners :
          LET r == unregister(dm.self, field_name, listener)
          IN  dm' = [self |-> r.obj,
                     last |-> [op |-> "unregister", field_name |-> field_name,
                               listener |-> listener, eff |-> r.eff],
                     registered |-> dm.registered \ {<<field_name, listener>>},
                     again |-> dm.again \ {<<field_name, listener>>},
                     ops |-> dm.ops + 1]
    /\ UNCHANGED <<data, obs, lims, ofc, chart, built, shown, spec, capa, cell, names, rounded, compared>>

\* mdl.setvalue(field_name, new_value)
SetValue ==
    /\ dm # NoObject /\ dm.ops < MaxOps
    /\ \E field_name \in FieldNames, new_value \in Values :
          LET r == setvalue(dm.self, field_name, new_value)
          IN  dm' = [self |-> r.obj,
                     last |-> [op |-> "setvalue", field_name |-> field_name,
                               new_value |-> new_value, eff |-> r.eff],
                     registered |-> dm.registered, again |-> dm.again,
                     ops |-> dm.ops + 1]
    /\ UNCHANGED <<data, obs, lims, ofc, chart, built, shown, spec, capa, cell, names, rounded, compared>>

ModelNext == NewModel \/ Register \/ Unregister \/ SetValue

SpecModel == ModelInit /\ [][ModelNext]_vars

-----------------------------------------------------------------------------
(* Properties of spc_rules *)

\* the call has returned
Done == ofc # <<>>
\* the values and the labels returned for rule k
Vals(k) == ofc[2 * k - 1]
Labs(k) == ofc[2 * k]

N == Len(data)
\* the point at position p (counted from 1) is above, or below, a boundary
Above(p, lim) == QGt(QI(data[p]), lim)
Below(p, lim) == QLt(QI(data[p]), lim)

\* the position of the series that carries the label lab
PosOf(lab) == CHOOSE p \in 1..N : obs[p] = lab
\* the positions reported for rule k
ReportedPos(k) == {p \in 1..N : \E j \in 1..Len(Labs(k)) : Labs(k)[j] = obs[p]}

\* the two lists of rule k are parallel: each label is a label of the series,
\* each value is the value at its label's position, and the positions increase
InOrder(k) ==
    /\ Len(Vals(k)) = Len(Labs(k))
    /\ \A j \in 1..Len(Labs(k)) :
          /\ \E p \in 1..N : obs[p] = Labs(k)[j]
          /\ Vals(k)[j] = data[PosOf(Labs(k)[j])]
    /\ \A j \in 1..(Len(Labs(k)) - 1) : PosOf(Labs(k)[j]) < PosOf(Labs(k)[j + 1])

\* rule k reports the positions P, each once, in order, and nothing else
Reports(k, P) == InOrder(k) /\ ReportedPos(k) = P

\* the positions of the window of w points that starts at position i
Window(i, w) == i..(i + w - 1)
\* the first positions of the windows of w points of the series
Starts(w) == 1..(N - w + 1)

\* C2: rule 1 reports exactly the points strictly above the upper control
\* limit or strictly below the lower control limit, each with its own label
C2_Rule1 ==
    Done => Reports(1, {p \in 1..N : Above(p, lims.ucl) \/ Below(p, lims.lcl)})

\* C2: the series [10, 10, 10, 50] against the upper limit 20: only the last
\* point is reported
C2_Witness ==
    /\ Done /\ data = <<10, 10, 10, 50>> /\ lims.ucl = QI(20)
    /\ Vals(1) = <<50>> /\ Labs(1) = <<4>>

\* the points of some window of 9 points that lie all strictly above or all
\* strictly below the center line
SameSideRuns ==
    {p \in 1..N : \E i \in Starts(9) :
        /\ p \in Window(i, 9)
        /\ \/ \A q \in Window(i, 9) : Above(q, lims.cl)
           \/ \A q \in Window(i, 9) : Below(q, lims.cl)}

\* C3: rule 4 reports a point if and only if it belongs to a window of 9
\* consecutive points all strictly above or all strictly below the center
\* line; so 9 points above the center give all 9, and 8 give none
C3_Rule4 == Done => Reports(4, SameSideRuns)

\* C3: nine points above the center line, and all nine reported
C3_Witness ==
    /\ Done /\ N = 9 /\ \A p \in 1..N : data[p] = 1
    /\ Vals(4) = data /\ Labs(4) = obs

\* the points of the window at i beyond a boundary on the upper, lower side
Uppers(i, w, lim) == {q \in Window(i, w) : Above(q, lim)}
Lowers(i, w, lim) == {q \in Window(i, w) : Below(q, lim)}

\* every point of a window with at least k points beyond the boundary on
\* one side, that is itself beyond it on that side, is reported by rule r
AtLeastKofW(r, k, w, upper, lower) ==
    \A i \in Starts(w) :
        /\ Cardinality(Uppers(i, w, upper)) >= k => Uppers(i, w, upper) \subseteq ReportedPos(r)
        /\ Cardinality(Lowers(i, w, lower)) >= k => Lowers(i, w, lower) \subseteq ReportedPos(r)

\* C4: rules 2 and 3 report every point of a window with at least 2 of 3
\* (4 of 5) points beyond the zone boundary on one side, also when all the
\* points of the window are beyond it
C4_KofW ==
    Done => /\ AtLeastKofW(2, 2, 3, lims.ucl_b, lims.lcl_b)
            /\ AtLeastKofW(3, 4, 5, lims.ucl_c, lims.lcl_c)

\* every point reported by rule r is, with at least k-1 other points of one
\* of its windows, beyond the boundary on the same side
SameSideOnly(r, k, w, upper, lower) ==
    \A p \in ReportedPos(r) : \E i \in Starts(w) :
        \/ p \in Uppers(i, w, upper) /\ Cardinality(Uppers(i, w, upper)) >= k
        \/ p \in Lowers(i, w, lower) /\ Cardinality(Lowers(i, w, lower)) >= k

\* C5: rules 2 and 3 report a point only if it and at least k-1 other points
\* of one of its windows are beyond the zone boundary on the same side
C5_SameSide ==
    Done => /\ SameSideOnly(2, 2, 3, lims.ucl_b, lims.lcl_b)
            /\ SameSideOnly(3, 4, 5, lims.ucl_c, lims.lcl_c)

\* the points of some window of 8 points that are each beyond the C zone,
\* on whichever side
OutsideZoneC ==
    {p \in 1..N : \E i \in Starts(8) :
        /\ p \in Window(i, 8)
        /\ \A q \in Window(i, 8) : Above(q, lims.ucl_c) \/ Below(q, lims.lcl_c)}

\* C6: rule 6 reports all 8 points of every window of 8 consecutive points
\* that are each beyond the 1/3-zone boundary on either side, and no point
\* that is in no such window
C6_EitherSide == Done => Reports(6, OutsideZoneC)

\* the window widths of the rules 1 to 8
WindowWidth == <<1, 3, 5, 9, 7, 8, 15, 14>>

\* C7: a series shorter than the window of a rule, the empty series
\* included, gets empty value and label lists from that rule, and the call
\* returns its 16 lists
C7_ShortSeries ==
    Done => /\ Len(ofc) = 16
            /\ \A k \in 1..8 : N < WindowWidth[k] => Vals(k) = <<>> /\ Labs(k) = <<>>

\* C7: 14 equal points inside the C zone, one short of the window of rule 7:
\* rule 7 reports nothing, rule 5 with its window of 7 reports them all
C7_Witness ==
    /\ Done /\ N = 14 /\ \A p \in 1..N : data[p] = 0
    /\ Vals(7) = <<>> /\ Labs(7) = <<>>
    /\ Len(Vals(5)) = 14

\* C8: for every rule the value and label lists are parallel, each position
\* is reported at most once, and the positions are in increasing order
C8_ParallelLists == Done => \A k \in 1..8 : InOrder(k)

\* C8: the points 2 and 4 of [2, 2, 0, 2, 2] are each in two qualifying
\* windows of rule 2 and are reported once
C8_Witness ==
    /\ Done /\ data = <<2, 2, 0, 2, 2>>
    /\ Labs(2) = <<1, 2, 4, 5>> /\ Vals(2) = <<2, 2, 2, 2>>

-----------------------------------------------------------------------------
(* Properties of XmrChart *)

\* the last plot call drew something
Drew == "x" \in DOMAIN shown

\* the positions of the series s beyond the limits lo and hi
Beyond(s, lo, hi) ==
    {p \in 1..Len(s) : QGt(QI(s[p]), hi) \/ QLt(QI(s[p]), lo)}

\* C1: plot leaves every attribute of the chart as __init__ computed it,
\* with new data or without, and evaluates the rules on the plotted data
\* against those limits
C1_PlotKeepsCalibration ==
    chart # NoObject =>
        /\ chart = built
        /\ (Drew /\ shown.use_rules) =>
              /\ shown.x_ofc = spc_rules(shown.x, shown.obs, built.x_bar,
                                         built.x_ucl, built.x_ucl_b, built.x_ucl_c,
                                         built.x_lcl, built.x_lcl_b, built.x_lcl_c)
              /\ shown.mr_ofc = spc_rules(shown.mr, Slice(shown.obs, 1, Len(shown.obs)),
                                          built.mr_bar, built.mr_ucl, built.mr_ucl_b,
                                          built.mr_ucl_c, built.mr_lcl, built.mr_lcl_b,
                                          built.mr_lcl_c)
              /\ Len(shown.x_ofc[1]) = Cardinality(Beyond(shown.x, built.x_lcl, built.x_ucl))
              /\ Len(shown.mr_ofc[1]) = Cardinality(Beyond(shown.mr, built.mr_lcl, built.mr_ucl))

\* C1: new data, other than the calibration data, plotted with the rules
\* on a chart of three points, one of the two new points beyond the limits
C1_Witness ==
    /\ chart # NoObject /\ chart.n = 3 /\ Drew /\ shown.use_rules
    /\ shown.x # chart.x /\ Len(shown.x) = 2
    /\ Len(shown.x_ofc[1]) = 1

\* C9: for a calibration series of 2 or more points the I chart has
\* x_lcl <= x_lcl_b <= x_lcl_c <= x_bar <= x_ucl_c <= x_ucl_b <= x_ucl, the
\* C and B boundaries at one third and two thirds of the way to the limit
C9_ZoneOrder ==
    (chart # NoObject /\ chart.n >= 2) =>
        /\ QLe(chart.x_lcl, chart.x_lcl_b) /\ QLe(chart.x_lcl_b, chart.x_lcl_c)
        /\ QLe(chart.x_lcl_c, chart.x_bar) /\ QLe(chart.x_bar, chart.x_ucl_c)
        /\ QLe(chart.x_ucl_c, chart.x_ucl_b) /\ QLe(chart.x_ucl_b, chart.x_ucl)
        /\ QMul(QI(3), QSub(chart.x_ucl_c, chart.x_bar)) = QSub(chart.x_ucl, chart.x_bar)
        /\ QMul(QI(3), QSub(chart.x_ucl_b, chart.x_bar))
              = QMul(QI(2), QSub(chart.x_ucl, chart.x_bar))
        /\ QMul(QI(3), QSub(chart.x_bar, chart.x_lcl_c)) = QSub(chart.x_bar, chart.x_lcl)
        /\ QMul(QI(3), QSub(chart.x_bar, chart.x_lcl_b))
              = QMul(QI(2), QSub(chart.x_bar, chart.x_lcl))

\* C9: a chart of three points with a mean below zero and limits apart
C9_Witness ==
    /\ chart # NoObject /\ chart.n = 3
    /\ QLt(chart.x_bar, QI(0)) /\ QLt(chart.x_lcl, chart.x_lcl_b)
    /\ QLt(chart.x_ucl_b, chart.x_ucl)

-----------------------------------------------------------------------------
(* Properties of Spec *)

\* a Spec was constructed, or its construction raised
Tried == spec # NoObject
Failed == "error" \in DOMAIN spec.self
\* both limits were given
Bilateral ==
    /\ spec.lims # None /\ Len(spec.lims[1]) = 2
    /\ spec.lims[1][1] # None /\ spec.lims[1][2] # None
GivenFirst == spec.lims[1][1][1]
GivenSecond == spec.lims[1][2][1]

\* C10: with both limits given, in either order, a Spec that is constructed
\* has the smaller as lower_limit and the larger as upper_limit
C10_LimitsOrdered ==
    (Tried /\ Bilateral /\ ~Failed) =>
        /\ spec.self.lsl = QI(Min(GivenFirst, GivenSecond))
        /\ spec.self.usl = QI(Max(GivenFirst, GivenSecond))
        /\ QLe(spec.self.lsl, spec.self.usl)

\* C10: the limits (8, 5) give lower 5 and upper 8
C10_Witness ==
    /\ Tried /\ Bilateral /\ ~Failed
    /\ GivenFirst = 8 /\ GivenSecond = 5
    /\ spec.self.lsl = QI(5) /\ spec.self.usl = QI(8)

\* C11: with both limits given, construction fails or gives a Spec with
\* lower_limit <= target <= upper_limit; a target below the lower limit is
\* rejected as one above the upper limit is
C11_TargetWithin ==
    (Tried /\ Bilateral /\ ~Failed) =>
        /\ QLe(spec.self.lsl, spec.self.nominal)
        /\ QLe(spec.self.nominal, spec.self.usl)

\* exactly one limit was given, in either place of lims
OneGiven ==
    /\ spec.lims # None /\ Len(spec.lims[1]) = 2
    /\ (spec.lims[1][1] = None) # (spec.lims[1][2] = None)
TheLimit == IF spec.lims[1][1] # None THEN GivenFirst ELSE GivenSecond

\* C12: a single limit L with a target t other than L is stored as the upper
\* limit if L > t and as the lower limit if L < t, the other limit is NaN
\* and the target is t
C12_OneLimit ==
    (Tried /\ OneGiven /\ spec.nominal # None /\ TheLimit # spec.nominal[1]) =>
        /\ ~Failed
        /\ spec.self.nominal = QI(spec.nominal[1])
        /\ TheLimit > spec.nominal[1] =>
              spec.self.usl = QI(TheLimit) /\ IsNaN(spec.self.lsl)
        /\ TheLimit < spec.nominal[1] =>
              spec.self.lsl = QI(TheLimit) /\ IsNaN(spec.self.usl)

\* C12: the upper limit of lims is 5 and the target 7: 5 is stored as the
\* lower limit and the upper limit is absent
C12_Witness ==
    /\ Tried /\ OneGiven /\ spec.lims[1][1] = None /\ GivenSecond = 5
    /\ spec.nominal = Some(7)
    /\ spec.self.lsl = QI(5) /\ IsNaN(spec.self.usl)

\* has_spec was called on the Spec
Asked == Tried /\ "has_spec" \in DOMAIN spec

\* C13: has_spec() is False if and only if the lower limit, the upper limit
\* and the target are all NaN; with no limits and a target, the target alone
\* is stored and has_spec() is True
C13_HasSpec ==
    /\ Asked =>
          (spec.has_spec = FALSE) <=>
              (IsNaN(spec.self.lsl) /\ IsNaN(spec.self.usl) /\ IsNaN(spec.self.nominal))
    /\ (Asked /\ spec.lims = None /\ spec.nominal # None) =>
          /\ spec.self = SpecObject(NaN, NaN, QI(spec.nominal[1]))
          /\ spec.has_spec = TRUE

\* C13: a Spec of the target 7 alone answers True
C13_Witness ==
    /\ Asked /\ spec.lims = None /\ spec.nominal = Some(7)
    /\ IsNaN(spec.self.lsl) /\ IsNaN(spec.self.usl)
    /\ spec.has_spec = TRUE

\* C13: a Spec of nothing answers False
C13_WitnessNone ==
    /\ Asked /\ spec.lims = None /\ spec.nominal = None
    /\ spec.has_spec = FALSE

-----------------------------------------------------------------------------
(* Properties of ProcessCapability *)

\* a ProcessCapability was constructed
Studied == capa # NoObject /\ "error" \notin DOMAIN capa
\* the Spec it was given has no lower limit, or no upper limit
LimitMissing == IsNaN(spec.self.lsl) \/ IsNaN(spec.self.usl)

\* C14: no ProcessCapability is constructed from a Spec without its lower
\* or its upper limit: the construction fails, and leaves no object with
\* nan ratios
C14_MissingLimit == Studied => ~LimitMissing

\* the calibration data have both deviations defined and not zero
Deviating ==
    /\ chart.n >= 2
    /\ ~IsNaN(chart.proc_std_dev) /\ chart.proc_std_dev # QI(0)
    /\ ~IsNaN(chart.total_std_dev[2]) /\ chart.total_std_dev[2] # QI(0)

\* v is the smaller of a and b
SmallerOf(v, a, b) == v \in {a, b} /\ QLe(v, a) /\ QLe(v, b)

\* C15: with both limits and deviations that are not zero,
\* pp = (USL-LSL)/(6 s), ppu = (USL-mean)/(3 s), ppl = (mean-LSL)/(3 s) and
\* ppk = min(ppu, ppl) for the overall deviation s, a square root; cp, cpu,
\* cpl and cpk are the same for the within deviation w
C15_Ratios ==
    (Studied /\ ~LimitMissing /\ Deviating) =>
        LET U == spec.self.usl
            L == spec.self.lsl
            mean == chart.proc_mean
            w == chart.proc_std_dev
            v == chart.total_std_dev[2]
        IN  /\ QMul(capa.cp, QMul(QI(6), w)) = QSub(U, L)
            /\ QMul(capa.cpu, QMul(QI(3), w)) = QSub(U, mean)
            /\ QMul(capa.cpl, QMul(QI(3), w)) = QSub(mean, L)
            /\ SmallerOf(capa.cpk, capa.cpu, capa.cpl)
            /\ capa.pp.rad = v /\ capa.ppu.rad = v /\ capa.ppl.rad = v
            /\ QMul(capa.pp.coef, QI(6)) = QSub(U, L)
            /\ QMul(capa.ppu.coef, QI(3)) = QSub(U, mean)
            /\ QMul(capa.ppl.coef, QI(3)) = QSub(mean, L)
            /\ capa.ppk \in {capa.ppu, capa.ppl}
            /\ QLe(capa.ppk.coef, capa.ppu.coef) /\ QLe(capa.ppk.coef, capa.ppl.coef)

\* C15: the series [0, 1, 0] (mean 1/3, within deviation 1/1.128) against
\* the limits -3 and 5: cpl = 94/75 is less than cpu = 658/375 and is cpk
C15_Witness ==
    /\ Studied /\ chart.x = <<0, 1, 0>>
    /\ spec.self.lsl = QI(-3) /\ spec.self.usl = QI(5)
    /\ capa.cpl = Q(94, 75) /\ capa.cpu = Q(658, 375)
    /\ capa.cpk = capa.cpl /\ capa.ppk = capa.ppl

-----------------------------------------------------------------------------
(* Properties of the chart constructors *)

\* C16: no XmrChart is constructed from a calibration series of fewer than
\* 2 points: the construction fails, and leaves no chart with a nan center,
\* moving-range mean or limits
C16_ShortCalibration ==
    (chart # NoObject /\ "error" \notin DOMAIN chart) => chart.n >= 2

\* an XBarRChart was constructed, or its construction raised
TriedXBarR == chart # NoObject /\ "m2d" \in DOMAIN built
\* the subgroup size it was given
GivenN == built.m2d.shape[2]

\* C17: the construction of an XBarRChart with a subgroup size outside
\* 2..25 fails with an error; no such size gets the constants of another
C17_SubgroupRange ==
    (TriedXBarR /\ GivenN \notin 2..25) => "error" \in DOMAIN chart

\* C18: for every subgroup size n of 2..25 the lookup at n-2 succeeds and
\* gives the n-th constants less one of the tables d2, D3, D4 and A2, with
\* d2 > 0, D4 > 0, A2 > 0 and D3 >= 0; each table has 24 entries
C18_Constants ==
    /\ Len(xbar_d2_) = 24 /\ Len(xbar_d3_) = 24
    /\ Len(xbar_d4_) = 24 /\ Len(xbar_a2_) = 24
    /\ (TriedXBarR /\ GivenN \in 2..25) =>
          /\ "error" \notin DOMAIN chart
          /\ chart.locals = [d2 |-> Thousandths(xbar_d2_[GivenN - 1]),
                             d3 |-> Thousandths(xbar_d3_[GivenN - 1]),
                             d4 |-> Thousandths(xbar_d4_[GivenN - 1]),
                             a2 |-> Thousandths(xbar_a2_[GivenN - 1])]
          /\ QGt(chart.locals.d2, QI(0)) /\ QGt(chart.locals.d4, QI(0))
          /\ QGt(chart.locals.a2, QI(0)) /\ QGe(chart.locals.d3, QI(0))

\* C18: a chart of two subgroups of 25 samples, with the last constants of
\* the tables
C18_Witness ==
    /\ TriedXBarR /\ GivenN = 25 /\ built.m2d.shape[1] = 2
    /\ "error" \notin DOMAIN chart
    /\ chart.locals.d2 = Q(3931, 1000) /\ chart.locals.a2 = Q(153, 1000)
    /\ chart.r_bar = QI(3)

-----------------------------------------------------------------------------
(* Properties of the cell references *)

\* a reference was made of coordinates and read back; a reference was read
\* and made again of its coordinates
FromCoord == cell # NoObject /\ "row_no" \in DOMAIN cell
FromRef == cell # NoObject /\ "crs" \in DOMAIN cell

\* the letters of a string in upper case, written out
InUpperCase(letters) ==
    [k \in DOMAIN letters |->
        IF \E j \in 1..26 : LowerCase[j] = letters[k]
        THEN UpperCase[CHOOSE j \in 1..26 : LowerCase[j] = letters[k]]
        ELSE letters[k]]

\* C19: cref_coord gives back the row and column get_cell_ref was given,
\* with or without '$' marks; and get_cell_ref of the coordinates of a
\* reference gives the reference in upper case without sheet name and marks
C19_RoundTrip ==
    /\ FromCoord => cell.back = [coord |-> <<cell.row_no, cell.col_no>>]
    /\ FromRef => cell.back = InUpperCase(cell.letters) \o cell.digits

\* C19: 'iv525' has the coordinates (524, 255), which give 'IV525'
C19_Witness ==
    /\ FromRef /\ cell.crs = <<"i", "v", "5", "2", "5">>
    /\ cell.coord = [coord |-> <<524, 255>>]
    /\ cell.back = <<"I", "V", "5", "2", "5">>

\* C19: row 999 and column 475253, both absolute, give '$ZZZZ$1000', which
\* has these coordinates
C19_WitnessCoord ==
    /\ FromCoord /\ cell.row_no = 999 /\ cell.col_no = 475253
    /\ cell.ref = <<"$", "Z", "Z", "Z", "Z", "$", "1", "0", "0", "0">>
    /\ cell.back = [coord |-> <<999, 475253>>]

-----------------------------------------------------------------------------
(* Properties of AlphaNum *)

\* a list was sorted
Sorted == names # NoObject

\* the chunks of s: the longest runs of digits and of other characters
ChunkStarts(s) == {k \in 1..Len(s) : k = 1 \/ IsDigit(s[k]) # IsDigit(s[k - 1])}
Chunks(s) ==
    LET st == sorted(ChunkStarts(s))
    IN  [i \in 1..Len(st) |->
            SubSeq(s, st[i], IF i = Len(st) THEN Len(s) ELSE st[i + 1] - 1)]

\* a chunk of digits, and its integer value
DigitChunk(c) == IsDigit(c[1])
RECURSIVE ValueOf(_)
ValueOf(c) ==
    IF c = <<>> THEN 0
    ELSE 10 * ValueOf(SubSeq(c, 1, Len(c) - 1)) + IndexIn(DigitChars, c[Len(c)]) - 1

\* two chunks that do not differ: the same text, or digits of the same value
SameChunk(c, d) ==
    \/ c = d
    \/ DigitChunk(c) /\ DigitChunk(d) /\ ValueOf(c) = ValueOf(d)

\* the list of chunks ca sorts before the list cb: at the first chunk
\* where they differ ca has none left, or both chunks are digits and ca's
\* value is less, or one is not digits and ca's chunk is less as text
ChunksBefore(ca, cb) ==
    \E i \in 1..Len(cb) :
        /\ \A j \in 1..(i - 1) : j <= Len(ca) /\ SameChunk(ca[j], cb[j])
        /\ \/ i > Len(ca)
           \/ /\ i <= Len(ca)
              /\ ~SameChunk(ca[i], cb[i])
              /\ IF DigitChunk(ca[i]) /\ DigitChunk(cb[i])
                 THEN ValueOf(ca[i]) < ValueOf(cb[i])
                 ELSE StrLt(ca[i], cb[i])

\* the string a sorts before the string b
Before(a, b) == ChunksBefore(Chunks(a), Chunks(b))

\* neither sorts before the other
Tied(a, b) == ~Before(a, b) /\ ~Before(b, a)

\* a is a proper prefix of b
ProperPrefix(a, b) == Len(a) < Len(b) /\ SubSeq(b, 1, Len(a)) = a

\* the items of lst tied with x, in the order of lst
TiedWith(lst, x) ==
    LET F[k \in 0..Len(lst)] ==
            IF k = 0 THEN <<>>
            ELSE IF Tied(lst[k], x) THEN Append(F[k - 1], lst[k]) ELSE F[k - 1]
    IN  F[Len(lst)]

\* the sorted list has the items of the given one, none before an item
\* that sorts before it
InChunkOrder ==
    /\ Len(names.sorted) = Len(names.given)
    /\ \A x \in SetOf(names.given) :
          Cardinality({k \in DOMAIN names.sorted : names.sorted[k] = x})
              = Cardinality({k \in DOMAIN names.given : names.given[k] = x})
    /\ \A i \in DOMAIN names.sorted : \A j \in DOMAIN names.sorted :
          i < j => ~Before(names.sorted[j], names.sorted[i])

\* C20: the sorted list is in chunk order, digit chunks compared by value
\* and the others as text, and a string that is a proper prefix of another
\* comes before it
C20_PrefixFirst ==
    Sorted =>
        /\ InChunkOrder
        /\ \A i \in DOMAIN names.sorted : \A j \in DOMAIN names.sorted :
              i < j => ~ProperPrefix(names.sorted[j], names.sorted[i])

\* what the sort does give: the list in chunk order, digit chunks compared
\* by value and the others as text; a string that is a proper prefix of
\* another before it unless the two are tied, differing only in digit
\* chunks of the same value ('z0' and 'z00'); tied strings in their given
\* order
AlphaNumOrder ==
    Sorted =>
        /\ InChunkOrder
        /\ \A i \in DOMAIN names.sorted : \A j \in DOMAIN names.sorted :
              (i < j /\ ProperPrefix(names.sorted[j], names.sorted[i]))
                  => Tied(names.sorted[i], names.sorted[j])
        /\ \A x \in SetOf(names.given) :
              TiedWith(names.sorted, x) = TiedWith(names.given, x)
        /\ \A a \in SetOf(names.given) : \A b \in SetOf(names.given) :
              (ProperPrefix(a, b) /\ Tied(a, b)) =>
                  LET ca == Chunks(a)
                      cb == Chunks(b)
                  IN  /\ Len(ca) = Len(cb)
                      /\ DigitChunk(ca[Len(ca)])
                      /\ ValueOf(ca[Len(ca)]) = ValueOf(cb[Len(cb)])

\* 'Alpha 2A-8000', 'z100' and 'Alpha 2A-900' come out with 900
\* before 8000, and 'z100' last
AlphaNumOrder_Witness ==
    /\ Sorted
    /\ names.given = <<<<"A", "l", "p", "h", "a", " ", "2", "A", "-", "8", "0", "0", "0">>,
                       <<"z", "1", "0", "0">>,
                       <<"A", "l", "p", "h", "a", " ", "2", "A", "-", "9", "0", "0">>>>
    /\ names.sorted = <<<<"A", "l", "p", "h", "a", " ", "2", "A", "-", "9", "0", "0">>,
                        <<"A", "l", "p", "h", "a", " ", "2", "A", "-", "8", "0", "0", "0">>,
                        <<"z", "1", "0", "0">>>>

\* 'z00' given before its prefix 'z0' stays before it
AlphaNumOrder_WitnessTied ==
    /\ Sorted
    /\ names.given = <<<<"z", "1", "0", "0">>, <<"z", "0", "0">>, <<"z", "0">>>>
    /\ names.sorted = <<<<"z", "0", "0">>, <<"z", "0">>, <<"z", "1", "0", "0">>>>

-----------------------------------------------------------------------------
(* Further properties of the charts, the rules and Spec *)

\* C22: the zone boundaries of the mean chart of an XBarRChart lie between
\* the center line and the control limits, x_bar_lcl <= x_bar_lcl_b <=
\* x_bar_lcl_c <= x_bar_bar <= x_bar_ucl_c <= x_bar_ucl_b <= x_bar_ucl, at
\* one third and two thirds of the distance from the center to the limit
C22_XBarZones ==
    (TriedXBarR /\ "error" \notin DOMAIN chart /\ chart.n >= 2 /\ chart.k >= 1) =>
        /\ QLe(chart.x_bar_lcl, chart.x_bar_lcl_b)
        /\ QLe(chart.x_bar_lcl_b, chart.x_bar_lcl_c)
        /\ QLe(chart.x_bar_lcl_c, chart.x_bar_bar)
        /\ QLe(chart.x_bar_bar, chart.x_bar_ucl_c)
        /\ QLe(chart.x_bar_ucl_c, chart.x_bar_ucl_b)
        /\ QLe(chart.x_bar_ucl_b, chart.x_bar_ucl)
        /\ QMul(QI(3), QSub(chart.x_bar_ucl_c, chart.x_bar_bar))
              = QSub(chart.x_bar_ucl, chart.x_bar_bar)
        /\ QMul(QI(3), QSub(chart.x_bar_bar, chart.x_bar_lcl_c))
              = QSub(chart.x_bar_bar, chart.x_bar_lcl)

\* the points of some window of 7 points that never fall, or never rise,
\* from one point to the next
MonotoneRuns ==
    {p \in 1..N : \E i \in Starts(7) :
        /\ p \in Window(i, 7)
        /\ \/ \A q \in i..(i + 5) : data[q] <= data[q + 1]
           \/ \A q \in i..(i + 5) : data[q] >= data[q + 1]}

\* C23: rule 5 reports a point if and only if it belongs to a window of 7
\* consecutive points that are non-decreasing or non-increasing, equal
\* neighbours allowed; a window that both rises and falls is not reported
C23_Rule5 == Done => Reports(5, MonotoneRuns)

\* C23: seven points that rise once and then stay are all reported; seven
\* equal points followed by a rise and a fall give the first eight only
C23_Witness ==
    /\ Done /\ data = <<0, 0, 0, 0, 0, 0, 0, 1, 0>>
    /\ Labs(5) = <<1, 2, 3, 4, 5, 6, 7, 8>>
    /\ Vals(5) = <<0, 0, 0, 0, 0, 0, 0, 1>>

\* the Spec made of the same arguments with the two places of lims swapped
Swapped == SpecNew(Some(<<spec.lims[1][2], spec.lims[1][1]>>), spec.nominal)

\* C27: with one limit and a target the Spec does not depend on the place
\* of lims that carries the limit: Spec((L, None), t) and Spec((None, L), t)
\* have the same limits and target, also for L = t
C27_PositionFree ==
    (Tried /\ OneGiven /\ spec.nominal # None) => spec.self = Swapped

\* the points of some window of 15 points that all lie strictly inside the
\* C zone
InsideRuns ==
    {p \in 1..N : \E i \in Starts(15) :
        /\ p \in Window(i, 15)
        /\ \A q \in Window(i, 15) : Above(q, lims.lcl_c) /\ Below(q, lims.ucl_c)}

\* C24: rule 7 reports a point if and only if it belongs to a window of 15
\* consecutive points that all lie strictly between the lower and the upper
\* boundary of the C zone; a point on or beyond a boundary disqualifies
\* every window it is in
C24_Rule7 == Done => Reports(7, InsideRuns)

\* C24: 16 points on the center line are all reported; with the last point
\* on the upper boundary the first window still qualifies
C24_Witness ==
    /\ Done /\ N = 16 /\ lims = Lims(QI(2))
    /\ \A p \in 1..15 : data[p] = 0
    /\ data[16] = 2
    /\ Labs(7) = Labels(15)

\* C24: 15 points of which one is on the lower boundary of the C zone and
\* the others inside: nothing is reported
C24_WitnessLower ==
    /\ Done /\ N = 15 /\ lims = ShiftedLims
    /\ data[8] = 0
    /\ \A p \in 1..15 : p # 8 => data[p] = 2
    /\ Labs(7) = <<>> /\ Vals(7) = <<>>

\* the points of some window of 14 points in which every move from a point
\* to the next is up or down and opposite to the move before it
ZigZagRuns ==
    {p \in 1..N : \E i \in Starts(14) :
        /\ p \in Window(i, 14)
        /\ \A q \in i..(i + 12) : data[q + 1] # data[q]
        /\ \A q \in i..(i + 11) :
               (data[q + 1] > data[q]) # (data[q + 2] > data[q + 1])}

\* C25: rule 8 reports a point if and only if it belongs to a window of 14
\* consecutive points whose 13 successive differences are all non-zero and
\* each of the opposite sign of the difference before it
C25_Rule8 == Done => Reports(8, ZigZagRuns)

\* C25: of 16 alternating points with the 15th as high as its neighbours
\* the first 14 are reported
C25_Witness ==
    /\ Done /\ N = 16
    /\ \A p \in 1..16 : data[p] = IF p % 2 = 1 /\ p # 15 THEN 0 ELSE 2
    /\ Labs(8) = Labels(14)

\* C25: two successive moves upward in the middle of 16 otherwise
\* alternating points leave no window of 14: nothing is reported
C25_WitnessSameWay ==
    /\ Done /\ N = 16
    /\ \A p \in 1..16 : data[p] = IF p = 9 THEN 3 ELSE IF p % 2 = 1 THEN 0 ELSE 2
    /\ Labs(8) = <<>>

-----------------------------------------------------------------------------
(* Properties of mround *)

\* mround was called
Rounded == rounded # NoObject
\* the values of its arguments
NumberOf == IF "int" \in DOMAIN rounded.number
            THEN QI(rounded.number.int) ELSE rounded.number.float
MultipleOf == IF "int" \in DOMAIN rounded.multiple
              THEN QI(rounded.multiple.int) ELSE rounded.multiple.float
QAbs(a) == <<Abs(a[1]), a[2]>>

\* C21: mround(number, multiple) returns 0 if number or multiple is zero,
\* raises ValueError if both are non-zero with different signs, and
\* otherwise returns the multiple of multiple nearest to number, the one
\* further from zero of two equally near
C21_MRound ==
    Rounded =>
        LET n == NumberOf
            m == MultipleOf
            r == rounded.ret
        IN  IF n[1] = 0 \/ m[1] = 0 THEN r = Returned(QI(0))
            ELSE IF (n[1] < 0) # (m[1] < 0) THEN r = Raised("ValueError")
            ELSE /\ "value" \in DOMAIN r
                 /\ QDiv(r.value, m)[2] = 1
                 /\ QLe(QMul(QI(2), QAbs(QSub(r.value, n))), QAbs(m))
                 /\ QMul(QI(2), QAbs(QSub(r.value, n))) = QAbs(m)
                       => QGt(QAbs(r.value), QAbs(n))

\* C21: mround(5, 2) is 6, a tie that goes away from zero
C21_Witness ==
    /\ Rounded /\ rounded.number = PyInt(5) /\ rounded.multiple = PyInt(2)
    /\ rounded.ret = Returned(QI(6))

\* C21: the other values the claim names: mround(10, 3) = 9,
\* mround(11, 3) = 12 and mround(-5, -2) = -6
C21_WitnessDown ==
    /\ Rounded /\ rounded.number = PyInt(10) /\ rounded.multiple = PyInt(3)
    /\ rounded.ret = Returned(QI(9))
C21_WitnessUp ==
    /\ Rounded /\ rounded.number = PyInt(11) /\ rounded.multiple = PyInt(3)
    /\ rounded.ret = Returned(QI(12))
C21_WitnessNegative ==
    /\ Rounded /\ rounded.number = PyInt(-5) /\ rounded.multiple = PyInt(-2)
    /\ rounded.ret = Returned(QI(-6))
C21_WitnessSigns ==
    /\ Rounded /\ rounded.number = PyInt(10) /\ rounded.multiple = PyInt(-5)
    /\ rounded.ret = Raised("ValueError")

-----------------------------------------------------------------------------
(* Properties of the comparisons of AlphaNum *)

\* the comparisons of two strings were made
Compared == compared # NoObject

\* C28: cmp_alphanum is a consistent three-way comparison: cmp_alphanum(a, b)
\* and cmp_alphanum(b, a) have opposite signs or are both zero,
\* cmp_alphanum(a, a) is 0 and AlphaNum(a) == AlphaNum(a) is true, and of
\* AlphaNum(a) < AlphaNum(b) and AlphaNum(b) < AlphaNum(a) exactly one holds
\* for strings that differ
C28_Consistent ==
    Compared =>
        /\ Sgn(compared.ab) = -Sgn(compared.ba)
        /\ compared.aa = 0
        /\ compared.eq_aa
        /\ compared.a # compared.b => (compared.lt_ab # compared.lt_ba)

\* what does hold: the comparison is never 0, not of a string with itself
\* either, and the two ways round have opposite signs unless the strings
\* are made of the same chunks up to leading zeros
NeverEqual ==
    Compared =>
        /\ compared.ab # 0 /\ compared.aa = 1 /\ ~compared.eq_aa
        /\ compared.ab = compared.ba =>
              /\ compared.ab = 1
              /\ Len(Chunks(compared.a)) = Len(Chunks(compared.b))
              /\ \A k \in 1..Len(Chunks(compared.a)) :
                     SameChunk(Chunks(compared.a)[k], Chunks(compared.b)[k])

\* a call of cmp_alphanum is under way, and it has returned
Entered == compared # NoObject
AtReturn == Entered /\ compared.pc = "return"

\* a pass of the loop has just ended
PassEnded == Entered /\ compared.pc = "while" /\ compared.passes >= 1

\* C29: cmp_alphanum terminates for every pair of strings: a pass of the
\* loop ends with n non-zero or with both remaining strings strictly
\* shorter than it found them, the pass that finds both strings exhausted
\* ends with n non-zero, and a call that was entered returns
C29_Terminates ==
    /\ [](PassEnded =>
            /\ \/ compared.n # 0
               \/ /\ Len(compared.a) < Len(compared.before[1])
                  /\ Len(compared.b) < Len(compared.before[2])
            /\ compared.before = <<<<>>, <<>>>> => compared.n # 0
            /\ compared.n = 0 => compared.passes < MaxPasses)
    /\ Entered ~> AtReturn

\* the loop followed step by step returns what cmp_alphanum(self, other) is
LoopReturnsCmp ==
    AtReturn => compared.n = cmp_alphanum(compared.self, compared.other)

\* C29: 'a01' against 'a1' returns 1 from the third pass, the one that
\* finds both strings exhausted after two ties
C29_Witness ==
    /\ AtReturn
    /\ compared.self = <<"a", "0", "1">> /\ compared.other = <<"a", "1">>
    /\ compared.passes = 3 /\ compared.n = 1
    /\ compared.a = <<>> /\ compared.b = <<>>

\* C29: two empty strings return from the first pass
C29_WitnessEmpty ==
    /\ AtReturn /\ compared.self = <<>> /\ compared.other = <<>>
    /\ compared.passes = 1 /\ compared.n = 1

-----------------------------------------------------------------------------
(* Properties of DictModel *)

\* the last call on the model was setvalue
ValueSet == dm # NoObject /\ dm.last.op = "setvalue"
\* the listeners a notification can reach: those with a notify method of
\* their own or of their parent
Reachable == {l \in Listeners : has_notify(l) \/ parent_has_notify(l)}
\* the listeners registered for the field f and not unregistered since
RegisteredFor(f) == {l \in Listeners : <<f, l>> \in dm.registered}

\* C30 as claimed: after any calls of register, unregister and setvalue,
\* setvalue(f, v) on a field f of the model stores v and notifies exactly
\* once each listener registered for f and not unregistered since, and no
\* other listener; on a field name the model does not have it adds no
\* field and notifies no listener
C30_EachListener ==
    ValueSet =>
        LET f == dm.last.field_name
        IN  /\ DOMAIN dm.self._mdl_dc = Fields
            /\ f \in Fields =>
                  /\ dm.self._mdl_dc[f] = dm.last.new_value
                  /\ \A l \in Listeners :
                         dm.last.eff.notified[l] =
                             IF l \in RegisteredFor(f) THEN 1 ELSE 0
            /\ f \notin Fields =>
                  \A l \in Listeners : dm.last.eff.notified[l] = 0

\* C30: setvalue(f, v) on a field f of the model stores v and notifies
\* exactly once each listener registered for f and not unregistered since
\* that has a notify method of its own or of its parent, and no other
\* listener; for each registered listener that has neither it prints one
\* message and notifies nothing.  On a field name the model does not have
\* it adds no field, notifies no listener and prints two messages
C30_SetValue ==
    ValueSet =>
        LET f == dm.last.field_name
        IN  /\ DOMAIN dm.self._mdl_dc = Fields
            /\ f \in Fields =>
                  /\ dm.self._mdl_dc[f] = dm.last.new_value
                  /\ \A l \in Reachable :
                         dm.last.eff.notified[l] =
                             IF l \in RegisteredFor(f) THEN 1 ELSE 0
                  /\ \A l \in Listeners \ Reachable : dm.last.eff.notified[l] = 0
                  /\ dm.last.eff.printed = Cardinality(RegisteredFor(f) \ Reachable)
            /\ f \notin Fields =>
                  /\ \A l \in Listeners : dm.last.eff.notified[l] = 0
                  /\ dm.last.eff.printed = 2

\* C30: c, which has no notify and whose parent has none, and a were
\* registered for x; setvalue('x', 1) notifies a once, c not, and prints
\* one message
C30_WitnessNoNotify ==
    /\ ValueSet
    /\ dm.last.field_name = "x" /\ dm.last.new_value = 1
    /\ dm.registered = {<<"x", "a">>, <<"x", "c">>}
    /\ dm.self._mdl_dc["x"] = 1
    /\ dm.last.eff.notified["a"] = 1 /\ dm.last.eff.notified["c"] = 0
    /\ dm.last.eff.printed = 1

\* C30: a was registered twice for x and b once for y; setvalue('x', 1)
\* stores 1 and notifies a once and b not
C30_Witness ==
    /\ ValueSet /\ dm.ops = 4
    /\ dm.last.field_name = "x" /\ dm.last.new_value = 1
    /\ dm.registered = {<<"x", "a">>, <<"y", "b">>}
    /\ dm.again = {<<"x", "a">>}
    /\ dm.self._mdl_dc["x"] = 1
    /\ dm.last.eff.notified["a"] = 1 /\ dm.last.eff.notified["b"] = 0

\* C30: b was registered for x and unregistered again: setvalue('x', 1)
\* notifies nobody
C30_WitnessUnregistered ==
    /\ ValueSet /\ dm.ops = 3
    /\ dm.last.field_name = "x"
    /\ dm.registered = {}
    /\ "x" \in DOMAIN dm.self._listeners_dc
    /\ \A l \in Listeners : dm.last.eff.notified[l] = 0

\* C30: a was registered for the unknown field q: setvalue('q', 1) adds no
\* field and notifies nobody
C30_WitnessUnknown ==
    /\ ValueSet
    /\ dm.last.field_name = "q"
    /\ <<"q", "a">> \in dm.registered
    /\ DOMAIN dm.self._mdl_dc = Fields
    /\ \A l \in Listeners : dm.last.eff.notified[l] = 0

====
